---- MODULE Spec2Model ----
(***************************************************************************)
(* A model of the arena pointer runtime of pgx:                            *)
(*   - PgMemoryContexts (pgx/src/memcxt.rs): the arena selector, its       *)
(*     direct accessors and the scoped switch_to;                          *)
(*   - PgPtr<List> (pgx-pg-sys/src/type_impls/list.rs): the typed host     *)
(*     list helpers and their iterators;                                   *)
(*   - PgRelation (pgx/src/rel.rs): the relation handle.                   *)
(*   - PgPtr<T> (pgx-pg-sys/src/pgptr.rs): Deref and DerefMut;             *)
(*   - PgBindingsRewriter (pgx-pg-bindings-generator/src/                  *)
(*     bindings_rewriter.rs): the rewrite of the generated bindings.       *)
(* Each subsystem has its own specification (MemSpec, ListSpec, RelSpec,   *)
(* PtrSpec, RewriteSpec, FixSpec, LeakSpec, FmtSpec); the variables of the *)
(* other subsystems stay at                                                *)
(* their initial values.                                                   *)
(***************************************************************************)
EXTENDS Integers, Sequences, FiniteSets, TLC

VARIABLES
    \* ---- memcxt.rs ----
    CurrentMemoryContext, \* pg_sys::CurrentMemoryContext, the process-wide active arena
    ctx,                  \* host arena table: arena -> [state, parent]
    ownedSel,             \* arenas wrapped by a live PgMemoryContexts::Owned value
    stack,                \* switch_to calls in progress, innermost last
    unwinding,            \* a panic / host fault is propagating out of a body
    ops,                  \* operations the program has started so far
    memOut,               \* what the last memcxt operation did
    callbacks,            \* host reset callbacks: arena -> the records registered on it
    drops,                \* times each leaked value has been dropped
    dangling,             \* the host has read a callback record in freed memory
    \* ---- list.rs ----
    kind,                 \* element kind of the list under test: "ptr", "i32" or "oid"
    list,                 \* the PgPtr<List> handle: a host address, NULL when null
    cells,                \* host list records: address -> sequence of elements
    iter,                 \* the iterator under test: [alive, borrow, list, pos, ...]
    crashed,              \* the host process died inside a list routine
    listOut,              \* what the last list operation did
    \* ---- rel.rs ----
    handles,              \* the PgRelation values made so far: [boxed, lockmode, ...]
    refcnt,               \* host relcache reference count per relation oid
    locks,                \* host lock manager: <<oid, mode>> -> times held
    relOut,               \* what the last PgRelation operation did
    \* ---- pgptr.rs ----
    ptr,                  \* a PgPtr<T> handle: the address it holds, NULL when null
    heap,                 \* host memory: address -> the T stored there
    ptrOut,               \* what the last PgPtr operation did
    cstr,                 \* the bytes a PgPtr<c_char> points at, up to the NUL
    fmtStack,             \* Display::fmt calls in progress
    fmtOut,               \* what formatting has done: [status, written]
    \* ---- bindings_rewriter.rs ----
    file,                 \* the syn::File being rewritten: its items, in order
    structs,              \* rewrite()'s local Vec of struct idents
    pc,                   \* where rewrite() stands: a phase, and the item the loop is at
    fixInput,             \* the type a `while self.rewrite_type(ty) {}` loop was given
    fixTy,                \* the type as the loop has it now
    fixCalls,             \* calls of rewrite_type the loop has made
    fixRc                 \* what the last call returned

leakVars == <<callbacks, drops, dangling>>
memVars == <<CurrentMemoryContext, ctx, ownedSel, stack, unwinding, ops, memOut, leakVars>>
listVars == <<kind, list, cells, iter, crashed, listOut>>
relVars == <<handles, refcnt, locks, relOut>>
fmtVars == <<cstr, fmtStack, fmtOut>>
ptrVars == <<ptr, heap, ptrOut, fmtVars>>
fixVars == <<fixInput, fixTy, fixCalls, fixRc>>
rwVars == <<file, structs, pc, fixVars>>
vars == <<memVars, listVars, relVars, ptrVars, rwVars>>

\* A null pointer (std::ptr::null_mut()).
NULL == 0

(***************************************************************************)
(*                         pgx/src/memcxt.rs                               *)
(***************************************************************************)

\* ---- bound of the memcxt model ----
\* The operations the program starts in one run.  It also bounds the arenas the
\* program creates and the nesting depth of switch_to.
MaxOps == 3

\* ---- the host's well-known arenas (globals of the host) ----
\* The backend is inside a top-level transaction with an active portal:
\* CurTransactionContext is TopTransactionContext (memcxt.rs:120-121).
TopMemoryContext == 1
ErrorContext == 2
PostmasterContext == 3
CacheMemoryContext == 4
MessageContext == 5
TopTransactionContext == 6
PortalContext == 7
NFixed == 7

FixedArenas == 1..NFixed
DynArenas == (NFixed + 1)..(NFixed + MaxOps)
Arenas == FixedArenas \cup DynArenas

\* Host chunks.  Every chunk is preceded by a header naming its arena
\* (memcxt.rs:368-372); the model gives the chunks of arena a the address
\* ChunkBase + a.
ChunkBase == 100
ChunkIn(a) == ChunkBase + a

\* The parent of each well-known arena in the host's arena tree.
HostParent(a) ==
    CASE a = TopMemoryContext -> NULL
      [] a = PortalContext -> TopTransactionContext
      [] OTHER -> TopMemoryContext

\* The selector variants that read a host global (memcxt.rs:50-133).
GlobalTags == {"TopMemoryContext", "PortalContext", "ErrorContext", "PostmasterContext",
               "CacheMemoryContext", "MessageContext", "TopTransactionContext",
               "CurTransactionContext"}

\* enum PgMemoryContexts: a selector is [tag, arg]; arg is the arena of For and
\* Owned, the pointer of Of, the parent of Transient, and NULL otherwise.
Sel(t, x) == [tag |-> t, arg |-> x]
NoSel == Sel("none", NULL)

\* The value of a host global.
HostGlobal(tag) ==
    CASE tag = "TopMemoryContext" -> TopMemoryContext
      [] tag = "PortalContext" -> PortalContext
      [] tag = "ErrorContext" -> ErrorContext
      [] tag = "PostmasterContext" -> PostmasterContext
      [] tag = "CacheMemoryContext" -> CacheMemoryContext
      [] tag = "MessageContext" -> MessageContext
      [] tag = "TopTransactionContext" -> TopTransactionContext
      [] tag = "CurTransactionContext" -> TopTransactionContext

Live(a) == a \in Arenas /\ ctx[a].state = "live"

\* Every selector value that exists in the current state: the unit variants,
\* For over a live arena, the Owned values not yet dropped, Of over a chunk of a
\* live arena, Transient under a live parent.
AllSelectors ==
    {Sel("CurrentMemoryContext", NULL)}
    \cup {Sel(t, NULL) : t \in GlobalTags}
    \cup {Sel("For", a) : a \in {b \in Arenas : Live(b)}}
    \cup {Sel("Owned", a) : a \in ownedSel}
    \cup {Sel("Of", ChunkIn(a)) : a \in {b \in Arenas : Live(b)}}
    \cup {Sel("Transient", a) : a \in {b \in Arenas : Live(b)}}

\* The program under test switches, sets and resets with the selectors that
\* name these arenas (and Transient ones created under them); value() is
\* called on every selector.
UsedArenas == {TopMemoryContext, TopTransactionContext} \cup DynArenas
Selectors ==
    {sel \in AllSelectors :
        CASE sel.tag = "CurrentMemoryContext" -> TRUE
          [] sel.tag \in GlobalTags -> HostGlobal(sel.tag) \in UsedArenas
          [] sel.tag = "Of" -> sel.arg - ChunkBase \in UsedArenas
          [] OTHER -> sel.arg \in UsedArenas}

\* The result of a panic!().
PANIC == -1

\* get_context_for_pointer: the host's chunk header names the owning arena.
get_context_for_pointer(p) == p - ChunkBase

\* value() with the Transient arm handing back the parent instead of panicking.
value_Mut(sel) ==
    CASE sel.tag = "CurrentMemoryContext" -> CurrentMemoryContext
      [] sel.tag \in GlobalTags -> HostGlobal(sel.tag)
      [] sel.tag = "Of" -> get_context_for_pointer(sel.arg)
      [] OTHER -> sel.arg

\* PgMemoryContexts::value
value(sel) ==
    CASE sel.tag = "CurrentMemoryContext" -> CurrentMemoryContext
      [] sel.tag \in GlobalTags -> HostGlobal(sel.tag)
      [] sel.tag = "For" -> sel.arg
      [] sel.tag = "Owned" -> sel.arg
      [] sel.tag = "Of" -> get_context_for_pointer(sel.arg)
      [] sel.tag = "Transient" -> PANIC

\* Whether b is a or one of a's descendants in the arena table c.
RECURSIVE Under(_, _, _, _)
Under(c, b, a, fuel) ==
    IF b = a THEN TRUE
    ELSE IF b = NULL \/ fuel = 0 THEN FALSE
    ELSE Under(c, c[b].parent, a, fuel - 1)

Subtree(c, a) == {b \in Arenas : c[b].state = "live" /\ Under(c, b, a, NFixed + MaxOps)}

\* host AllocSetContextCreateExtended: the address of the new arena.
FreshArena == CHOOSE a \in DynArenas : ctx[a].state = "free" /\
                  \A b \in DynArenas : ctx[b].state = "free" => a <= b
HasFreshArena == \E a \in DynArenas : ctx[a].state = "free"

\* host AllocSetContextCreateExtended(parent, ...)
AllocSetContextCreateExtended(c, a, parent) ==
    [c EXCEPT ![a] = [state |-> "live", parent |-> parent]]

\* host MemoryContextDelete(a): a and its descendants go.
MemoryContextDelete(c, a) ==
    [b \in Arenas |-> IF b \in Subtree(c, a) \/ b = a
                      THEN [state |-> "deleted", parent |-> c[b].parent]
                      ELSE c[b]]

\* host MemoryContextReset(a): a's descendants go, a itself stays.
MemoryContextReset(c, a) ==
    [b \in Arenas |-> IF b \in Subtree(c, a) /\ b # a
                      THEN [state |-> "deleted", parent |-> c[b].parent]
                      ELSE c[b]]

\* The record of an operation: its name, the kind of selector it was called on
\* ("Transient", "Owned", or "other" for the variants that only name an arena),
\* whether it panicked, and the arena in the selector it returned (NULL when it
\* returns none).
Out(op, tag, panicked, ret) ==
    [op |-> op, tag |-> tag, panicked |-> panicked, ret |-> ret]
SelKind(sel) == IF sel.tag \in {"Transient", "Owned"} THEN sel.tag ELSE "other"

\* The host's arena table when the extension is entered: the well-known arenas
\* are live, no other arena exists.
InitCtx ==
    [a \in Arenas |->
        IF a \in FixedArenas THEN [state |-> "live", parent |-> HostParent(a)]
        ELSE [state |-> "free", parent |-> NULL]]

\* No reset callback is registered.
InitCallbacks == [a \in Arenas |-> <<>>]

\* The arenas that can be active when the extension is entered.
EntryContexts == {TopTransactionContext, PortalContext}

\* No operation yet.
InitMemOut == Out("init", "none", FALSE, NULL)

\* A panic or host fault raised now: it propagates if a switch_to body is running,
\* and is caught by the extension's entry point otherwise.
Raised == stack # <<>>

\* The program starts one more operation.
Start == ops < MaxOps /\ ops' = ops + 1

\* ---- reset callbacks (host MemoryContextRegisterResetCallback) ----
\* The values leak_and_drop_on_delete leaks in one run.
MaxLeaks == 2

\* A registered callback record is [at, arg, valid]: the arena that owns the
\* record's chunk, the leaked value it is to drop, and whether the chunk is
\* still allocated.
CallbackRecord(at, arg) == [at |-> at, arg |-> arg, valid |-> TRUE]

\* The arena on which the callback for the leaked value v is registered, in a
\* set; empty when there is none.
RegisteredOn(v) ==
    {b \in Arenas : \E i \in 1..Len(callbacks[b]) : callbacks[b][i].arg = v}

\* The record registered for v.
RecordOf(v) ==
    LET b == CHOOSE x \in RegisteredOn(v) : TRUE
        i == CHOOSE j \in 1..Len(callbacks[b]) : callbacks[b][j].arg = v
    IN  callbacks[b][i]

\* What the host finds when, freeing the arenas F, it comes to call the
\* callback registered for v on an arena of F.  The host frees the children of
\* an arena before it calls the arena's own callbacks, and calls them before it
\* frees the arena's own chunks.  "intact": the record is allocated; "freed":
\* the record's chunk has been freed, before or earlier in this operation;
\* "either": the record is in another branch of F, freed before or after
\* according to the order of the children.
RecordState(v, F) ==
    LET b == CHOOSE x \in RegisteredOn(v) : TRUE
        r == RecordOf(v)
    IN  IF ~r.valid THEN "freed"
        ELSE IF r.at = b \/ r.at \notin F THEN "intact"
        ELSE IF Under(ctx, r.at, b, NFixed + MaxOps) THEN "freed"
        ELSE IF Under(ctx, b, r.at, NFixed + MaxOps) THEN "intact"
        ELSE "either"

\* host MemoryContextReset / MemoryContextDelete freeing the arenas F: the
\* callbacks registered on them are called and unregistered; every record
\* whose chunk is in F is freed.  Reading a freed record is undefined: lucky
\* says, for each value, whether the callback is called all the same.
Freeing(F) ==
    \E lucky \in [1..Len(drops) -> BOOLEAN] :
        LET called(v) == RegisteredOn(v) # {} /\ RegisteredOn(v) \subseteq F
            readsFreed(v) ==
                called(v) /\ (RecordState(v, F) = "freed"
                                \/ (RecordState(v, F) = "either" /\ ~lucky[v]))
            runs(v) ==
                called(v) /\ (RecordState(v, F) = "intact" \/ lucky[v])
        IN  /\ drops' = [v \in 1..Len(drops) |-> IF runs(v) THEN drops[v] + 1 ELSE drops[v]]
            /\ dangling' = (dangling \/ \E v \in 1..Len(drops) : readsFreed(v))
            /\ callbacks' =
                  [b \in Arenas |->
                      IF b \in F THEN <<>>
                      ELSE [i \in 1..Len(callbacks[b]) |->
                              IF callbacks[b][i].at \in F
                              THEN [callbacks[b][i] EXCEPT !.valid = FALSE]
                              ELSE callbacks[b][i]]]

\* MemoryContextDelete(d), or nothing when d is NULL.
FreeingIfAny(d) == IF d # NULL THEN Freeing(Subtree(ctx, d)) ELSE UNCHANGED leakVars

\* PgMemoryContexts::new
New ==
    /\ ~unwinding
    /\ Start
    /\ HasFreshArena
    /\ Live(CurrentMemoryContext)
    /\ LET a == FreshArena IN
        /\ ctx' = AllocSetContextCreateExtended(ctx, a, value(Sel("CurrentMemoryContext", NULL)))
        /\ ownedSel' = ownedSel \cup {a}
        /\ memOut' = Out("new", "Owned", FALSE, a)
    /\ UNCHANGED <<CurrentMemoryContext, stack, unwinding>>
    /\ UNCHANGED leakVars
    /\ UNCHANGED <<listVars, relVars, ptrVars, rwVars>>

\* Drop for OwnedMemoryContext: the wrapper of arena a goes out of scope.
DropOwned(a) ==
    /\ ~unwinding
    /\ Start
    /\ a \in ownedSel
    /\ ctx' = MemoryContextDelete(ctx, a)
    /\ ownedSel' = ownedSel \ {a}
    /\ memOut' = Out("drop", "Owned", FALSE, NULL)
    /\ UNCHANGED <<CurrentMemoryContext, stack, unwinding>>
    /\ Freeing(Subtree(ctx, a))
    /\ UNCHANGED <<listVars, relVars, ptrVars, rwVars>>

\* A call of value() by the program.
Value(sel) ==
    /\ ~unwinding
    /\ Start
    /\ LET v == value(sel) IN
        /\ memOut' = Out("value", SelKind(sel), v = PANIC, NULL)
        /\ unwinding' = (v = PANIC /\ Raised)
    /\ UNCHANGED <<CurrentMemoryContext, ctx, ownedSel, stack>>
    /\ UNCHANGED leakVars
    /\ UNCHANGED <<listVars, relVars, ptrVars, rwVars>>

\* set_as_current remembering the top arena instead of the active one.
OldContext_Mut == TopMemoryContext

\* set_as_current (memcxt.rs:217): the arena remembered for the result.
OldContext == CurrentMemoryContext

\* PgMemoryContexts::set_as_current: value() is evaluated before the assignment;
\* the result is For(old_context).
SetAsCurrent(sel) ==
    /\ ~unwinding
    /\ Start
    /\ LET old_context == OldContext
           v == value(sel)
       IN  IF v = PANIC
           THEN /\ memOut' = Out("set_as_current", SelKind(sel), TRUE, NULL)
                /\ unwinding' = Raised
                /\ UNCHANGED CurrentMemoryContext
           ELSE /\ Live(v)
                /\ CurrentMemoryContext' = v
                /\ memOut' = Out("set_as_current", SelKind(sel), FALSE, old_context)
                /\ UNCHANGED unwinding
    /\ UNCHANGED <<ctx, ownedSel, stack>>
    /\ UNCHANGED leakVars
    /\ UNCHANGED <<listVars, relVars, ptrVars, rwVars>>

\* PgMemoryContexts::reset
Reset(sel) ==
    /\ ~unwinding
    /\ Start
    /\ LET v == value(sel) IN
         IF v = PANIC
         THEN /\ memOut' = Out("reset", SelKind(sel), TRUE, NULL)
              /\ unwinding' = Raised
              /\ UNCHANGED ctx
              /\ UNCHANGED leakVars
         ELSE /\ Live(v)
              /\ ctx' = MemoryContextReset(ctx, v)
              /\ memOut' = Out("reset", SelKind(sel), FALSE, NULL)
              /\ UNCHANGED unwinding
              /\ Freeing(Subtree(ctx, v))
    /\ UNCHANGED <<CurrentMemoryContext, ownedSel, stack>>
    /\ UNCHANGED <<listVars, relVars, ptrVars, rwVars>>

\* The host's palloc giving out a chunk of the top arena whatever arena is
\* active.
palloc_Mut == ChunkIn(TopMemoryContext)

\* pgptr::palloc / palloc0 (pgptr.rs:6-24): the pointer the host's palloc gives,
\* a chunk of the arena that is active when it is called.
palloc == ChunkIn(CurrentMemoryContext)

\* PgPtr::<S>::new() or new0(): the synthesized constructor calls palloc or
\* palloc0 (bindings_rewriter.rs:42-48); the record's ret is the pointer.
Alloc(routine) ==
    /\ ~unwinding
    /\ Start
    /\ Live(CurrentMemoryContext)
    /\ memOut' = Out(routine, "none", FALSE, palloc)
    /\ UNCHANGED <<CurrentMemoryContext, ctx, ownedSel, stack, unwinding>>
    /\ UNCHANGED leakVars
    /\ UNCHANGED <<listVars, relVars, ptrVars, rwVars>>

\* PgMemoryContexts::leak_and_drop_on_delete (memcxt.rs:320-335): the value is
\* leaked, the callback record is made with PgPtr::new(), that is palloc, and
\* registered on self.value(), which panics for Transient after the value has
\* been leaked.
LeakAndDropOnDelete(sel) ==
    /\ ~unwinding
    /\ Start
    /\ Len(drops) < MaxLeaks
    /\ Live(CurrentMemoryContext)
    /\ drops' = Append(drops, 0)
    /\ LET leaked_ptr == Len(drops) + 1
           memcxt_callback == CallbackRecord(get_context_for_pointer(palloc), leaked_ptr)
           v == value(sel)
       IN  IF v = PANIC
           THEN /\ memOut' = Out("leak_and_drop_on_delete", SelKind(sel), TRUE, NULL)
                /\ unwinding' = Raised
                /\ UNCHANGED callbacks
           ELSE /\ Live(v)
                /\ callbacks' = [callbacks EXCEPT ![v] = Append(@, memcxt_callback)]
                /\ memOut' = Out("leak_and_drop_on_delete", SelKind(sel), FALSE, NULL)
                /\ UNCHANGED unwinding
    /\ UNCHANGED <<CurrentMemoryContext, ctx, ownedSel, stack, dangling>>
    /\ UNCHANGED <<listVars, relVars, ptrVars, rwVars>>

\* A switch_to call in progress.  context and prev are exec_in_context's own
\* variables; sel is the selector switch_to was called on and atCall the arena
\* that was active when it was called; created is the Transient arm's new arena,
\* owned the arena of a consumed Owned selector (switch_to takes self by value);
\* both NULL otherwise.
Frame(sel, context, prev, atCall, created) ==
    [sel |-> sel, context |-> context, prev |-> prev, atCall |-> atCall,
     created |-> created, owned |-> IF sel.tag = "Owned" THEN sel.arg ELSE NULL]

\* exec_in_context (memcxt.rs:353): the selector handed to the body.
BodyHandle(f) == Sel("For", f.context)

\* switch_to, Transient arm (memcxt.rs:273-281): the arena handed to exec_in_context.
TransientContext(sel) == FreshArena

\* switch_to, other arms (memcxt.rs:291): the arena handed to exec_in_context.
ResolvedContext(sel) == value(sel)

\* exec_in_context remembering, in a nested call, what the outermost call
\* remembered.
SavedContext_Mut == IF stack # <<>> THEN stack[1].prev ELSE CurrentMemoryContext

\* exec_in_context (memcxt.rs:349): the arena remembered for the restore.
SavedContext == CurrentMemoryContext

\* switch_to up to the call of the body: resolve or create the arena, remember the
\* active one, make the arena active, call f(&mut For(context)).
SwitchTo(sel) ==
    /\ ~unwinding
    /\ Start
    /\ IF sel.tag = "Transient"
       THEN /\ HasFreshArena
            /\ LET context == TransientContext(sel) IN
                /\ ctx' = AllocSetContextCreateExtended(ctx, context, sel.arg)
                /\ CurrentMemoryContext' = context
                /\ stack' = Append(stack, Frame(sel, context, SavedContext,
                                                CurrentMemoryContext, context))
       ELSE /\ Live(ResolvedContext(sel))
            /\ LET context == ResolvedContext(sel) IN
                /\ CurrentMemoryContext' = context
                /\ stack' = Append(stack, Frame(sel, context, SavedContext,
                                                CurrentMemoryContext, NULL))
            /\ UNCHANGED ctx
    /\ memOut' = Out("switch_to_enter", SelKind(sel), FALSE, NULL)
    /\ ownedSel' = IF sel.tag = "Owned" THEN ownedSel \ {sel.arg} ELSE ownedSel
    /\ UNCHANGED unwinding
    /\ UNCHANGED leakVars
    /\ UNCHANGED <<listVars, relVars, ptrVars, rwVars>>

TopFrame == stack[Len(stack)]
PopFrame == SubSeq(stack, 1, Len(stack) - 1)
FrameTag(f) == IF f.created # NULL THEN "Transient"
               ELSE IF f.owned # NULL THEN "Owned" ELSE "other"

\* exec_in_context leaving the body's arena active.
RestoredContext_Mut(f) == f.context

\* exec_in_context (memcxt.rs:355-358): the arena made active after the body.
RestoredContext(f) == f.prev

\* switch_to after exec_in_context has returned (memcxt.rs:285-287, and the drop
\* of self at the end of the function): the arena this call deletes, NULL if none.
DeletedOnReturn(f) == IF f.created # NULL THEN f.created ELSE f.owned

\* The body returns normally: guard::guard hands its result back,
\* exec_in_context restores the active arena, switch_to deletes the Transient
\* arena (or drops the Owned selector it consumed) and returns.
BodyReturn ==
    /\ ~unwinding
    /\ stack # <<>>
    /\ LET f == TopFrame
           d == DeletedOnReturn(f)
       IN  /\ CurrentMemoryContext' = RestoredContext(f)
           /\ ctx' = IF d # NULL THEN MemoryContextDelete(ctx, d) ELSE ctx
           /\ memOut' = Out("switch_to", FrameTag(f), FALSE, NULL)
           /\ FreeingIfAny(d)
    /\ stack' = PopFrame
    /\ UNCHANGED ops
    /\ UNCHANGED <<ownedSel, unwinding>>
    /\ UNCHANGED <<listVars, relVars, ptrVars, rwVars>>

\* The body raises: a Rust panic, or a host ERROR that the guarded extern block
\* turned into one.
BodyFault ==
    /\ ~unwinding
    /\ Start
    /\ stack # <<>>
    /\ unwinding' = TRUE
    /\ memOut' = Out("fault", "none", TRUE, NULL)
    /\ UNCHANGED <<CurrentMemoryContext, ctx, ownedSel, stack>>
    /\ UNCHANGED leakVars
    /\ UNCHANGED <<listVars, relVars, ptrVars, rwVars>>

\* switch_to left by a fault: no statement after the guard::guard call runs.  What
\* remains is the drop of switch_to's self (memcxt.rs:170-176), which runs if the
\* fault travels as a Rust unwind and does not if it travels as the host's
\* longjmp: the arena deleted on the way out, NULL if none.
DeletedOnUnwind(f, dropped) == IF dropped THEN f.owned ELSE NULL

\* guard::guard(|| f(..)) yields an R, which only a body that returned can
\* supply: when the body raised, guard does not return to exec_in_context, and
\* the statements after it (memcxt.rs:355-360 and 285-289) do not run.
\* `caught` says whether the enclosing body catches the fault or lets it travel
\* on; with no enclosing body the extension's entry point catches it.
Unwind(caught, dropped) ==
    /\ unwinding
    /\ stack # <<>>
    /\ LET f == TopFrame
           d == DeletedOnUnwind(f, dropped)
       IN  /\ ctx' = IF d # NULL THEN MemoryContextDelete(ctx, d) ELSE ctx
           /\ memOut' = Out("switch_to", FrameTag(f), TRUE, NULL)
           /\ FreeingIfAny(d)
    /\ stack' = PopFrame
    /\ UNCHANGED ops
    /\ unwinding' = (Len(stack) > 1 /\ ~caught)
    /\ UNCHANGED <<CurrentMemoryContext, ownedSel>>
    /\ UNCHANGED <<listVars, relVars, ptrVars, rwVars>>

MemNext ==
    \/ New
    \/ \E a \in Arenas : DropOwned(a)
    \/ \E sel \in AllSelectors : Value(sel)
    \/ \E sel \in Selectors : SetAsCurrent(sel)
    \/ \E sel \in Selectors : Reset(sel)
    \/ \E routine \in {"palloc", "palloc0"} : Alloc(routine)
    \/ \E sel \in Selectors : SwitchTo(sel)
    \/ BodyReturn
    \/ BodyFault
    \/ \E caught, dropped \in BOOLEAN : Unwind(caught, dropped)

(***************************************************************************)
(*                  pgx-pg-sys/src/type_impls/list.rs                      *)
(***************************************************************************)

\* ---- bounds of the list model ----
\* longest list built
MaxLen == 2

\* The three element kinds: opaque pointer, i32, Oid.  A list holds one kind; the
\* *_ptr, *_i32 and *_oid methods are the same code over the host accessor of
\* their kind, and the model applies the methods of the list's own kind.
Kinds == {"ptr", "i32", "oid"}
ElemVals(k) ==
    CASE k = "ptr" -> {NULL, 1}
      [] k = "i32" -> {0 - 1, 1}
      [] k = "oid" -> {0, 1}

\* The addresses of host list records.  The program holds one handle and one
\* iterator, so at most two records are reachable at a time; a record that
\* neither of them points to can never be read again, and the model forgets it
\* (Reachable below), so that its address stands for that of any later record.
ListAddrs == {1, 2}
\* The indices the program passes: one negative, the valid ones, one past the end.
Indices == (0 - 1)..MaxLen

\* An outcome: "Some" or "None" (an Option), "panic" (a Rust panic), "crash" (the
\* host process died), "unit" (a method that returns nothing).
R(tag, val) == [tag |-> tag, val |-> val]
Call(fn, arg) == [fn |-> fn, arg |-> arg]

\* PgPtr<List>::len
len(h) == IF h = NULL THEN 0 ELSE Len(cells[h])

\* host list_nth / list_nth_int / list_nth_oid behind pgx_list_nth*: the element
\* at a valid index.  The host checks its arguments with assertions only: on a
\* null list it reads through the null pointer; on an index outside the list it
\* dies (assert-enabled build) or hands back whatever the walk or the array
\* read finds.
HostNth(h, i) ==
    IF h # NULL /\ 0 <= i /\ i < Len(cells[h]) THEN {R("ok", cells[h][i + 1])}
    ELSE IF h = NULL THEN {R("crash", NULL)}
    ELSE {R("crash", NULL)} \cup {R("ok", v) : v \in ElemVals(kind)}

\* get_ptr / get_i32 / get_oid (list.rs:24-49): the bounds test, as written.
InBounds(h, i) == ~(i >= len(h))

\* get_ptr / get_i32 / get_oid: the possible outcomes of get(i) on handle h, each
\* with the host calls it made.  get_ptr derefs the element (list.rs:29), which
\* panics on a null pointer (pgptr.rs:158-160).
get(h, i) ==
    IF ~InBounds(h, i) THEN {[res |-> R("None", NULL), calls |-> <<>>]}
    ELSE {[res |-> IF r.tag = "crash" THEN r
                   ELSE IF kind = "ptr" /\ r.val = NULL THEN R("panic", NULL)
                   ELSE R("Some", r.val),
           calls |-> <<Call("pgx_list_nth", i)>>] : r \in HostNth(h, i)}

\* head_ptr / head_i32 / head_oid
head(h) == get(h, 0)

\* tail_ptr / tail_i32 / tail_oid
tail(h) == get(h, len(h) - 1)

\* host new_list: the address of a new list record.
FreshAddr == CHOOSE a \in ListAddrs : cells[a] = <<>> /\
                 \A b \in ListAddrs : cells[b] = <<>> => a <= b

\* host lappend / lappend_int / lappend_oid: a null list becomes a new record, a
\* non-null one grows in place; the result is the list's address.
lappend(h, v) ==
    IF h = NULL
    THEN [list |-> FreshAddr, cells |-> [cells EXCEPT ![FreshAddr] = <<v>>]]
    ELSE [list |-> h, cells |-> [cells EXCEPT ![h] = Append(@, v)]]

\* host list_truncate(h, n): NIL for n <= 0 (the record is left as it is), the
\* list itself for n >= its length, the list cut to n in place otherwise.
list_truncate(h, n) ==
    IF n <= 0 THEN [list |-> NULL, cells |-> cells]
    ELSE IF n >= Len(cells[h]) THEN [list |-> h, cells |-> cells]
    ELSE [list |-> h, cells |-> [cells EXCEPT ![h] = SubSeq(@, 1, n)]]

\* The record of a list operation: its name and argument, its outcome, the host
\* calls it made, and the length and handle it started from.
LOut(op, arg, res, calls) ==
    [op |-> op, arg |-> arg, res |-> res, calls |-> calls,
     lenBefore |-> len(list), listBefore |-> list]

\* No iterator.
NoIter ==
    [alive |-> FALSE, borrow |-> FALSE, list |-> NULL, pos |-> 0, out |-> <<>>,
     ended |-> FALSE, panicked |-> FALSE, clean |-> TRUE]

\* No host list record.
InitCells == [a \in ListAddrs |-> <<>>]

\* No operation yet.
InitListOut ==
    [op |-> "init", arg |-> NULL, res |-> R("unit", NULL), calls |-> <<>>,
     lenBefore |-> 0, listBefore |-> NULL]

\* The host records that handle h or iterator it still points to.
Reachable(c, h, it) ==
    [a \in ListAddrs |-> IF a = h \/ (it.alive /\ a = it.list) THEN c[a] ELSE <<>>]

\* iter_ptr borrows the handle, so the borrow checker rules out a mutation while
\* such an iterator is alive; iter_int and iter_oid return an iterator that owns
\* a copy of the handle and is not tied to the borrow.
Mutable == ~(iter.alive /\ iter.borrow)
Touched == IF iter.alive THEN [iter EXCEPT !.clean = FALSE] ELSE iter

\* get_ptr / get_i32 / get_oid called by the program.
Get(i) ==
    /\ ~crashed
    /\ \E o \in get(list, i) :
        /\ listOut' = LOut("get", i, o.res, o.calls)
        /\ crashed' = (o.res.tag = "crash")
    /\ UNCHANGED <<kind, list, cells, iter>>
    /\ UNCHANGED <<memVars, relVars, ptrVars, rwVars>>

\* head_*
GetHead ==
    /\ ~crashed
    /\ \E o \in head(list) :
        /\ listOut' = LOut("head", NULL, o.res, o.calls)
        /\ crashed' = (o.res.tag = "crash")
    /\ UNCHANGED <<kind, list, cells, iter>>
    /\ UNCHANGED <<memVars, relVars, ptrVars, rwVars>>

\* tail_*
GetTail ==
    /\ ~crashed
    /\ \E o \in tail(list) :
        /\ listOut' = LOut("tail", NULL, o.res, o.calls)
        /\ crashed' = (o.res.tag = "crash")
    /\ UNCHANGED <<kind, list, cells, iter>>
    /\ UNCHANGED <<memVars, relVars, ptrVars, rwVars>>

\* push_ptr / push_i32 / push_oid: the handle is reassigned from lappend's result.
Push(v) ==
    /\ ~crashed
    /\ Mutable
    /\ len(list) < MaxLen
    /\ LET r == lappend(list, v) IN
        /\ list' = r.list
        /\ cells' = Reachable(r.cells, r.list, iter)
    /\ iter' = Touched
    /\ listOut' = LOut("push", v, R("unit", NULL), <<Call("lappend", v)>>)
    /\ UNCHANGED <<kind, crashed>>
    /\ UNCHANGED <<memVars, relVars, ptrVars, rwVars>>

\* pop_* truncating by two.
PopLength_Mut(h) == len(h) - 2

\* pop_* (list.rs:100, 111, 122): the length handed to list_truncate.
PopLength(h) == len(h) - 1

\* pop_ptr / pop_i32 / pop_oid: tail_*(), and on Some the handle is reassigned
\* from list_truncate's result.
Pop ==
    /\ ~crashed
    /\ Mutable
    /\ \E o \in tail(list) :
        IF o.res.tag = "Some"
        THEN LET r == list_truncate(list, PopLength(list)) IN
              /\ list' = r.list
              /\ cells' = Reachable(r.cells, r.list, iter)
              /\ iter' = Touched
              /\ listOut' = LOut("pop", NULL, o.res,
                                 o.calls \o <<Call("list_truncate", PopLength(list))>>)
              /\ UNCHANGED crashed
        ELSE /\ listOut' = LOut("pop", NULL, o.res, o.calls)
             /\ crashed' = (o.res.tag = "crash")
             /\ UNCHANGED <<list, cells, iter>>
    /\ UNCHANGED kind
    /\ UNCHANGED <<memVars, relVars, ptrVars, rwVars>>

\* host list_nth_cell behind pgx_list_nth_cell: the position of the cell, 0 when
\* the host dies.  Outside the list it dies or lands on the head cell.
HostNthCell(h, i) ==
    IF h # NULL /\ 0 <= i /\ i < Len(cells[h]) THEN {i + 1} ELSE {0, 1}

\* The word in memory at the address p, read as a pointer.
WordAt(p) == 1000 + p

\* replace_* on Some (list.rs:136, 149, 162): what is returned.  replace_i32 and
\* replace_oid return the element get gave.  replace_ptr returns Some(*ptr) with
\* get_ptr instantiated at PgPtr<T>: the element is cast to a pointer to a
\* PgPtr<T> and read through, so the word it points at is returned.
Replaced(res) == IF kind = "ptr" THEN R("Some", WordAt(res.val)) ELSE res

\* replace_ptr / replace_i32 / replace_oid: get(i), and on Some the cell is
\* overwritten in place.
Replace(i, v) ==
    /\ ~crashed
    /\ Mutable
    /\ \E o \in get(list, i) :
        IF o.res.tag = "Some"
        THEN \E c \in HostNthCell(list, i) :
              IF c = 0
              THEN /\ listOut' = LOut("replace", i, R("crash", NULL),
                                      o.calls \o <<Call("pgx_list_nth_cell", i)>>)
                   /\ crashed' = TRUE
                   /\ UNCHANGED <<cells, iter>>
              ELSE /\ cells' = [cells EXCEPT ![list][c] = v]
                   /\ iter' = Touched
                   /\ listOut' = LOut("replace", i, Replaced(o.res),
                                      o.calls \o <<Call("pgx_list_nth_cell", i)>>)
                   /\ UNCHANGED crashed
        ELSE /\ listOut' = LOut("replace", i, o.res, o.calls)
             /\ crashed' = (o.res.tag = "crash")
             /\ UNCHANGED <<cells, iter>>
    /\ UNCHANGED <<kind, list>>
    /\ UNCHANGED <<memVars, relVars, ptrVars, rwVars>>

\* iter_ptr / iter_int / iter_oid (list.rs:168-191): a new iterator at position 0.
\* borrow: it reads the handle itself (iter_ptr); otherwise it reads its own copy
\* of the handle, taken now.  out, ended and clean record what it has yielded,
\* whether it has returned None, and whether the list is as it was at its creation.
NewIterator(h) ==
    [alive |-> TRUE, borrow |-> kind = "ptr", list |-> h, pos |-> 0, out |-> <<>>,
     ended |-> FALSE, panicked |-> FALSE, clean |-> TRUE]

\* A (new) iterator is made from the handle; the one made before is dropped.
Iter ==
    /\ ~crashed
    /\ iter' = NewIterator(list)
    /\ cells' = Reachable(cells, list, iter')
    /\ listOut' = LOut("iter", NULL, R("unit", NULL), <<>>)
    /\ UNCHANGED <<kind, list, crashed>>
    /\ UNCHANGED <<memVars, relVars, ptrVars, rwVars>>

\* The iterator goes out of scope.
IterDrop ==
    /\ ~crashed
    /\ iter.alive
    /\ iter' = NoIter
    /\ cells' = Reachable(cells, list, iter')
    /\ listOut' = LOut("iter_drop", NULL, R("unit", NULL), <<>>)
    /\ UNCHANGED <<kind, list, crashed>>
    /\ UNCHANGED <<memVars, relVars, ptrVars, rwVars>>

\* The list an iterator reads.
IterList(it) == IF it.borrow THEN list ELSE it.list

\* Iterator::next stepping by two.
NextPos_Mut(pos) == pos + 2

\* Iterator::next (list.rs:214-240): the position after a call.
NextPos(pos) == pos + 1

\* Iterator::next: get(pos), then pos += 1.  A panic inside get leaves before the
\* increment.  The position is capped one past the longest list.
Next ==
    /\ ~crashed
    /\ iter.alive
    /\ iter.pos <= MaxLen
    /\ ~iter.panicked
    /\ \E o \in get(IterList(iter), iter.pos) :
        /\ listOut' = LOut("next", NULL, o.res, o.calls)
        /\ crashed' = (o.res.tag = "crash")
        /\ iter' = CASE o.res.tag = "Some" ->
                          [iter EXCEPT !.pos = NextPos(iter.pos),
                                       !.out = Append(iter.out, o.res.val)]
                     [] o.res.tag = "None" ->
                          [iter EXCEPT !.pos = NextPos(iter.pos), !.ended = TRUE]
                     [] o.res.tag = "panic" -> [iter EXCEPT !.panicked = TRUE]
                     [] OTHER -> iter
    /\ UNCHANGED <<kind, list, cells>>
    /\ UNCHANGED <<memVars, relVars, ptrVars, rwVars>>

ListNext ==
    \/ \E i \in Indices : Get(i)
    \/ GetHead
    \/ GetTail
    \/ \E v \in ElemVals(kind) : Push(v)
    \/ Pop
    \/ \E i \in Indices, v \in ElemVals(kind) : Replace(i, v)
    \/ Iter
    \/ IterDrop
    \/ Next

(***************************************************************************)
(*                           pgx/src/rel.rs                                *)
(***************************************************************************)

\* ---- bound of the rel model ----
\* PgRelation values constructed in one run
MaxHandles == 2

\* Relation oids: RelA and RelB can be opened; RelGone is still named in the
\* catalog but was recently deleted (rel.rs:41-44).
Oids == {"RelA", "RelB", "RelGone"}
Openable == {"RelA", "RelB"}

\* Relation names handed to to_regclass; "nope" names nothing.
RelNames == {"a", "b", "gone", "nope"}

\* pg_sys::LOCKMODE values
LockModes == {"NoLock", "AccessShareLock", "AccessExclusiveLock"}

\* Option<LOCKMODE>
None == "None"

\* A PgPtr<RelationData>: the null pointer, or the address of the host's
\* descriptor of a relation; rd_id reads the oid out of a descriptor (rel.rs:148,
\* through Deref).
NullRel == <<>>
Desc(oid) == <<oid>>
rd_id(boxed) == boxed[1]

\* What a caller can hand to From<PgPtr<RelationData>>.
DescPtrs == {NullRel} \cup {Desc(o) : o \in Openable}

HandleIds == 1..MaxHandles

\* host to_regclass through direct_function_call (rel.rs:92, 109-112):
\* <<TRUE, oid>> for Some(oid), <<FALSE, "">> for None.
to_regclass(relname) ==
    CASE relname = "a" -> <<TRUE, "RelA">>
      [] relname = "b" -> <<TRUE, "RelB">>
      [] relname = "gone" -> <<TRUE, "RelGone">>
      [] OTHER -> <<FALSE, "">>

\* A host call made by PgRelation.
RelCall(fn, rel, mode) == [fn |-> fn, rel |-> rel, mode |-> mode]

\* host RelationIdGetRelation (rel.rs:40): the descriptor with its reference
\* count raised, null for a relation that is gone.
RelationIdGetRelation(rc, oid) ==
    IF oid \in Openable
    THEN [rel |-> Desc(oid), refcnt |-> [rc EXCEPT ![oid] = @ + 1]]
    ELSE [rel |-> NullRel, refcnt |-> rc]

\* host relation_open (rel.rs:69): takes the lock unless NoLock, then the
\* descriptor with its reference count raised; raises an error ("raised") for a
\* relation that is gone.
relation_open(rc, lk, oid, lockmode) ==
    IF oid \in Openable
    THEN [raised |-> FALSE, rel |-> Desc(oid),
          refcnt |-> [rc EXCEPT ![oid] = @ + 1],
          locks |-> IF lockmode = "NoLock" THEN lk
                    ELSE [lk EXCEPT ![<<oid, lockmode>>] = @ + 1]]
    ELSE [raised |-> TRUE, rel |-> NullRel, refcnt |-> rc, locks |-> lk]

\* host RelationClose (rel.rs:187): the reference count goes down, no lock is
\* released.
RelationClose(rc, rel) == [rc EXCEPT ![rd_id(rel)] = @ - 1]

\* host relation_close (rel.rs:188): RelationClose, then the lock is released
\* unless NoLock.
relation_close(rc, lk, rel, lockmode) ==
    [refcnt |-> RelationClose(rc, rel),
     locks |-> IF lockmode = "NoLock" THEN lk
               ELSE [lk EXCEPT ![<<rd_id(rel), lockmode>>] = @ - 1]]

\* A PgRelation (rel.rs:11-14) with its history: how it was made (via), the
\* handle it was cloned from (0 when none), and whether it has been dropped.
PgRelation(boxed, lockmode, via, from) ==
    [boxed |-> boxed, lockmode |-> lockmode, via |-> via, from |-> from,
     dropped |-> FALSE]

ROut(op, h, res, calls) == [op |-> op, h |-> h, res |-> res, calls |-> calls]

\* The host holds no reference and no lock for the program.
InitRefcnt == [o \in Oids |-> 0]
InitLocks == [ol \in Oids \X LockModes |-> 0]

\* No operation yet.
InitRelOut == ROut("init", 0, "unit", <<>>)

CanConstruct == Len(handles) < MaxHandles
NewHandle == Len(handles) + 1

\* PgRelation::open (rel.rs:39-50), reached as op from open and open_with_name.
OpenAs(op, from, oid, pre) ==
    LET r == RelationIdGetRelation(refcnt, oid)
        calls == pre \o <<RelCall("RelationIdGetRelation", oid, None)>> IN
    /\ refcnt' = r.refcnt
    /\ UNCHANGED locks
    /\ IF r.rel = NullRel
       THEN /\ relOut' = ROut(op, 0, "panic", calls)
            /\ UNCHANGED handles
       ELSE /\ handles' = Append(handles, PgRelation(r.rel, None, op, from))
            /\ relOut' = ROut(op, NewHandle, "ok", calls)

\* The lock mode a handle made by with_lock stores (rel.rs:70).
StoredLockMode(lockmode) == lockmode

\* PgRelation::with_lock (rel.rs:66-73), reached as op from with_lock, clone,
\* from_datum and open_with_name_and_share_lock.
WithLockAs(op, from, oid, lockmode, pre) ==
    LET r == relation_open(refcnt, locks, oid, lockmode)
        calls == pre \o <<RelCall("relation_open", oid, lockmode)>> IN
    /\ refcnt' = r.refcnt
    /\ locks' = r.locks
    /\ IF r.raised
       THEN /\ relOut' = ROut(op, 0, "error", calls)
            /\ UNCHANGED handles
       ELSE /\ handles' = Append(handles,
                                 PgRelation(r.rel, StoredLockMode(lockmode), op, from))
            /\ relOut' = ROut(op, NewHandle, "ok", calls)

\* PgRelation::open(oid)
Open(oid) ==
    /\ CanConstruct
    /\ OpenAs("open", 0, oid, <<>>)
    /\ UNCHANGED <<memVars, listVars, ptrVars, rwVars>>

\* PgRelation::with_lock(oid, lockmode)
WithLock(oid, lockmode) ==
    /\ CanConstruct
    /\ WithLockAs("with_lock", 0, oid, lockmode, <<>>)
    /\ UNCHANGED <<memVars, listVars, ptrVars, rwVars>>

\* From<PgPtr<RelationData>> (rel.rs:16-23): wraps the pointer, calls nothing.
FromPtr(r) ==
    /\ CanConstruct
    /\ handles' = Append(handles, PgRelation(r, None, "from", 0))
    /\ relOut' = ROut("from", NewHandle, "ok", <<>>)
    /\ UNCHANGED <<refcnt, locks>>
    /\ UNCHANGED <<memVars, listVars, ptrVars, rwVars>>

\* PgRelation::open_with_name (rel.rs:91-96)
OpenWithName(relname) ==
    /\ CanConstruct
    /\ LET o == to_regclass(relname)
           pre == <<RelCall("to_regclass", relname, None)>> IN
        IF o[1]
        THEN OpenAs("open_with_name", 0, o[2], pre)
        ELSE /\ relOut' = ROut("open_with_name", 0, "Err", pre)
             /\ UNCHANGED <<handles, refcnt, locks>>
    /\ UNCHANGED <<memVars, listVars, ptrVars, rwVars>>

\* PgRelation::open_with_name_and_share_lock (rel.rs:107-120)
OpenWithNameAndShareLock(relname) ==
    /\ CanConstruct
    /\ LET o == to_regclass(relname)
           pre == <<RelCall("to_regclass", relname, None)>> IN
        IF o[1]
        THEN WithLockAs("open_with_name_and_share_lock", 0, o[2], "AccessShareLock", pre)
        ELSE /\ relOut' = ROut("open_with_name_and_share_lock", 0, "Err", pre)
             /\ UNCHANGED <<handles, refcnt, locks>>
    /\ UNCHANGED <<memVars, listVars, ptrVars, rwVars>>

\* Clone copying the original's lock mode.
CloneLockMode_Mut(orig) == IF orig.lockmode = None THEN "NoLock" ELSE orig.lockmode

\* Clone for PgRelation (rel.rs:148): the lock mode the clone is opened with.
CloneLockMode(orig) == "AccessShareLock"

\* Clone for PgRelation (rel.rs:145-150).  Reading rd_id goes through the
\* pointer's Deref, which panics on a null pointer (pgptr.rs:155-161).
Clone(h) ==
    /\ CanConstruct
    /\ h \in 1..Len(handles)
    /\ ~handles[h].dropped
    /\ IF handles[h].boxed = NullRel
       THEN /\ relOut' = ROut("clone", 0, "panic", <<>>)
            /\ UNCHANGED <<handles, refcnt, locks>>
       ELSE WithLockAs("clone", h, rd_id(handles[h].boxed), CloneLockMode(handles[h]), <<>>)
    /\ UNCHANGED <<memVars, listVars, ptrVars, rwVars>>

\* FromDatum for PgRelation (rel.rs:152-163)
FromDatum(datum, is_null) ==
    /\ CanConstruct
    /\ IF is_null
       THEN /\ relOut' = ROut("from_datum", 0, "None", <<>>)
            /\ UNCHANGED <<handles, refcnt, locks>>
       ELSE WithLockAs("from_datum", 0, datum, "AccessShareLock", <<>>)
    /\ UNCHANGED <<memVars, listVars, ptrVars, rwVars>>

\* Drop that never releases the lock.
DropCalls_Mut(r) ==
    IF r.boxed = NullRel THEN <<>>
    ELSE <<RelCall("RelationClose", rd_id(r.boxed), None)>>

\* Drop for PgRelation (rel.rs:183-192): the host calls the drop of r makes.
DropCalls(r) ==
    IF r.boxed = NullRel THEN <<>>
    ELSE IF r.lockmode = None
         THEN <<RelCall("RelationClose", rd_id(r.boxed), None)>>
         ELSE <<RelCall("relation_close", rd_id(r.boxed), r.lockmode)>>

\* The host's state after the calls cs, made in order.
RECURSIVE HostAfter(_, _, _)
HostAfter(rc, lk, cs) ==
    IF cs = <<>> THEN [refcnt |-> rc, locks |-> lk]
    ELSE LET c == Head(cs)
             n == IF c.fn = "RelationClose"
                  THEN [refcnt |-> RelationClose(rc, Desc(c.rel)), locks |-> lk]
                  ELSE relation_close(rc, lk, Desc(c.rel), c.mode) IN
         HostAfter(n.refcnt, n.locks, Tail(cs))

\* A PgRelation goes out of scope.
Drop(h) ==
    /\ h \in 1..Len(handles)
    /\ ~handles[h].dropped
    /\ LET calls == DropCalls(handles[h])
           n == HostAfter(refcnt, locks, calls) IN
        /\ refcnt' = n.refcnt
        /\ locks' = n.locks
        /\ relOut' = ROut("drop", h, "unit", calls)
    /\ handles' = [handles EXCEPT ![h].dropped = TRUE]
    /\ UNCHANGED <<memVars, listVars, ptrVars, rwVars>>

RelNext ==
    \/ \E oid \in Oids : Open(oid)
    \/ \E oid \in Oids, lockmode \in LockModes : WithLock(oid, lockmode)
    \/ \E r \in DescPtrs : FromPtr(r)
    \/ \E relname \in RelNames : OpenWithName(relname)
    \/ \E relname \in RelNames : OpenWithNameAndShareLock(relname)
    \/ \E h \in HandleIds : Clone(h)
    \/ \E datum \in Oids, is_null \in BOOLEAN : FromDatum(datum, is_null)
    \/ \E h \in HandleIds : Drop(h)

(***************************************************************************)
(*                       pgx-pg-sys/src/pgptr.rs                           *)
(***************************************************************************)

\* ---- bound of the pgptr model ----
\* addresses of host memory a PgPtr can hold
MaxPtrAddrs == 3

PtrAddrs == 1..MaxPtrAddrs

\* The values of the pointee type T.
PtrVals == {"x", "y", "z"}

\* The default value of T, which a deref must never make up.
DefaultVal == "default"

\* <*const T>::as_ref / <*mut T>::as_mut (pgptr.rs:159, 166-167): an Option of a
\* reference, None for the null pointer.  A reference is the address it refers to.
as_ref(p) == IF p = NULL THEN <<>> ELSE <<p>>

\* Option::expect with None read as a reference to nothing.
expect_Mut(o) == IF o = <<>> THEN NULL ELSE o[1]

\* Option::expect (pgptr.rs:159, 168): the reference, or a panic.
expect(o) == IF o = <<>> THEN PANIC ELSE o[1]

\* Deref::deref and DerefMut::deref_mut (pgptr.rs:158-160, 164-170)
deref(p) == expect(as_ref(p))

\* What a read through reference r finds: the pointee, or for a reference to
\* nothing a made-up default.
ReadRef(r) == IF r \in PtrAddrs THEN heap[r] ELSE DefaultVal

POut(op, res, ref, val) == [op |-> op, res |-> res, ref |-> ref, val |-> val]

InitPtrOut == POut("init", "unit", NULL, DefaultVal)

\* PgPtr::null_mut / PgPtr::from_raw (pgptr.rs:44-50): the handle is made anew.
FromRaw(p) ==
    /\ ptr' = p
    /\ ptrOut' = POut("from_raw", "unit", NULL, DefaultVal)
    /\ UNCHANGED heap
    /\ UNCHANGED fmtVars
    /\ UNCHANGED <<memVars, listVars, relVars, rwVars>>

\* *handle: deref, then a read through the reference.
Deref ==
    /\ LET r == deref(ptr) IN
        ptrOut' = IF r = PANIC THEN POut("deref", "panic", NULL, DefaultVal)
                  ELSE POut("deref", "ref", r, ReadRef(r))
    /\ UNCHANGED <<ptr, heap>>
    /\ UNCHANGED fmtVars
    /\ UNCHANGED <<memVars, listVars, relVars, rwVars>>

\* *handle = v: deref_mut, then a write through the reference.
DerefMut(v) ==
    /\ LET r == deref(ptr) IN
        IF r = PANIC
        THEN /\ ptrOut' = POut("deref_mut", "panic", NULL, DefaultVal)
             /\ UNCHANGED heap
        ELSE /\ ptrOut' = POut("deref_mut", "ref", r, v)
             /\ heap' = IF r \in PtrAddrs THEN [heap EXCEPT ![r] = v] ELSE heap
    /\ UNCHANGED ptr
    /\ UNCHANGED fmtVars
    /\ UNCHANGED <<memVars, listVars, relVars, rwVars>>

PtrNext ==
    \/ \E p \in {NULL} \cup PtrAddrs : FromRaw(p)
    \/ Deref
    \/ \E v \in PtrVals : DerefMut(v)

(***************************************************************************)
(*        pgx-pg-bindings-generator/src/bindings_rewriter.rs               *)
(***************************************************************************)

\* ---- bound of the rewriter model ----
\* type constructors nested around a name in the types of the input file
MaxTypeDepth == 2

\* An Ident is the sequence of its characters.
IdS == <<"S">>
IdT == <<"T">>
IdA == <<"A">>
IdB == <<"B">>
IdD == <<"D">>
IdF == <<"f">>
IdList == <<"L", "i", "s", "t">>
IdRelationData == <<"R", "e", "l", "a", "t", "i", "o", "n", "D", "a", "t", "a">>
IdUnderscored == <<"_", "S">>
IdOption == <<"O", "p", "t", "i", "o", "n">>
IdPgPtr == <<"P", "g", "P", "t", "r">>
IdNew == <<"n", "e", "w">>
IdNew0 == <<"n", "e", "w", "0">>

\* str::starts_with (bindings_rewriter.rs:36)
starts_with(ident_name, c) == ident_name # <<>> /\ Head(ident_name) = c

\* A syn::Type is [k, name, args, ret]: k the variant; name the ident of a
\* one-segment Type::Path; args the element of Ptr / Array / Group / Paren, the
\* inputs of BareFn, the generic arguments of a Path; ret the output of a BareFn
\* or of a parenthesized path argument list, empty when there is none.
Ty(k, name, args, ret) == [k |-> k, name |-> name, args |-> args, ret |-> ret]
TyPath(name, args) == Ty("Path", name, args, <<>>)
TyPtr(elem) == Ty("Ptr", <<>>, <<elem>>, <<>>)
TyArray(elem) == Ty("Array", <<>>, <<elem>>, <<>>)
TyGroup(elem) == Ty("Group", <<>>, <<elem>>, <<>>)
TyParen(elem) == Ty("Paren", <<>>, <<elem>>, <<>>)
TyBareFn(inputs, output) == Ty("BareFn", <<>>, inputs, output)

\* The types one constructor deeper than those of ts.
Wrap(ts) ==
    {TyPtr(t) : t \in ts} \cup {TyArray(t) : t \in ts}
    \cup {TyGroup(t) : t \in ts} \cup {TyParen(t) : t \in ts}
    \cup {TyPath(IdOption, <<t>>) : t \in ts}
    \cup {TyBareFn(<<t>>, <<>>) : t \in ts} \cup {TyBareFn(<<>>, <<t>>) : t \in ts}

\* The types of the input: the struct S, the aliases A and B, under up to d
\* constructors.
RECURSIVE TypesUpTo(_)
TypesUpTo(d) ==
    IF d = 0 THEN {TyPath(IdS, <<>>), TyPath(IdA, <<>>), TyPath(IdB, <<>>)}
    ELSE TypesUpTo(0) \cup Wrap(TypesUpTo(d - 1))

InputTypes == TypesUpTo(MaxTypeDepth)

\* A syn::Item is [kind, ident, tys, attrs, items]: tys the field types of a
\* Struct or the body of a Type alias, attrs the attribute paths of a ForeignMod,
\* items the foreign items of a ForeignMod or the functions of an Impl.
Item(knd, ident, tys, attrs, items) ==
    [kind |-> knd, ident |-> ident, tys |-> tys, attrs |-> attrs, items |-> items]
ItemStruct(ident, fields) == Item("Struct", ident, fields, <<>>, <<>>)
ItemType(ident, ty) == Item("Type", ident, <<ty>>, <<>>, <<>>)
ItemForeignMod(attrs, items) == Item("ForeignMod", <<>>, <<>>, attrs, items)
ItemOther == Item("Const", IdD, <<>>, <<>>, <<>>)

\* A ForeignItem or an impl function is [kind, name, inputs, output, call,
\* size_of]: a Fn with its parameter types and return type, a Static with its
\* type as output, a Method with the allocation routine it calls and the type
\* whose size_of it passes.
Sub(knd, name, inputs, output, call, size_of) ==
    [kind |-> knd, name |-> name, inputs |-> inputs, output |-> output,
     call |-> call, size_of |-> size_of]
ForeignFn(inputs, output) == Sub("Fn", IdF, inputs, output, "", <<>>)
ForeignStatic(ty) == Sub("Static", IdF, <<>>, <<ty>>, "", <<>>)

\* impl New for PgPtr<ident> (bindings_rewriter.rs:39-51)
ImplNewFor(ident) ==
    Item("Impl", ident, <<TyPath(IdPgPtr, <<TyPath(ident, <<>>)>>)>>, <<>>,
         << Sub("Method", IdNew, <<>>, <<>>, "palloc", ident),
            Sub("Method", IdNew0, <<>>, <<>>, "palloc0", ident) >>)

\* A type whose args and ret have been through rewrite_type, given the [ty, rc]
\* of each: the type with the new children, and the or of the bools.
WithChildren(ty, fa, fr) ==
    [ty |-> [ty EXCEPT !.args = [i \in 1..Len(ty.args) |-> fa[i].ty],
                       !.ret = [i \in 1..Len(ty.ret) |-> fr[i].ty]],
     rc |-> (\E i \in 1..Len(ty.args) : fa[i].rc) \/ (\E i \in 1..Len(ty.ret) : fr[i].rc)]

\* rewrite_type, Ptr arm (bindings_rewriter.rs:217-221): quote! { PgPtr<#elem> }
PgPtrOf(elem) == TyPath(IdPgPtr, <<elem>>)

\* rewrite_type not walking into the arguments of a path.
RewriteWalks_Mut == {"BareFn", "Group", "Paren"}

\* The variants rewrite_type walks into (bindings_rewriter.rs:222-259).
RewriteWalks == {"BareFn", "Group", "Paren", "Path"}

\* PgBindingsRewriter::rewrite_type (bindings_rewriter.rs:214-264): one call, as
\* [ty, rc]: the type afterwards and the bool returned.
RECURSIVE rewrite_type(_)
rewrite_type(ty) ==
    IF ty.k = "Ptr" THEN [ty |-> PgPtrOf(ty.args[1]), rc |-> TRUE]
    ELSE IF ty.k \in RewriteWalks
    THEN WithChildren(ty, [i \in 1..Len(ty.args) |-> rewrite_type(ty.args[i])],
                          [i \in 1..Len(ty.ret) |-> rewrite_type(ty.ret[i])])
    ELSE [ty |-> ty, rc |-> FALSE]

\* while self.rewrite_type(ty) {} (bindings_rewriter.rs:29, 181, 200, 205, 208)
RECURSIVE RewriteWhile(_)
RewriteWhile(ty) ==
    LET r == rewrite_type(ty) IN IF r.rc THEN RewriteWhile(r.ty) ELSE r.ty

\* replace_type_aliases, first loop (bindings_rewriter.rs:62-75): the map from
\* the ident of every alias whose body is a pointer to a path, to that path.
IsPtrAlias(it) ==
    it.kind = "Type" /\ it.tys[1].k = "Ptr" /\ it.tys[1].args[1].k = "Path"
AliasesOf(items) ==
    LET is == {i \in 1..Len(items) : IsPtrAlias(items[i])} IN
    [n \in {items[i].ident : i \in is} |->
        LET i == CHOOSE j \in is : items[j].ident = n /\
                     \A l \in is : items[l].ident = n => l <= j
        IN items[i].tys[1].args[1]]

\* The variants replace_alias_usage walks into (bindings_rewriter.rs:120-138);
\* Type::Array is matched and left alone (line 123).
AliasWalks == {"Ptr", "BareFn", "Group", "Paren"}

\* PgBindingsRewriter::replace_alias_usage (bindings_rewriter.rs:118-177)
RECURSIVE replace_alias_usage(_, _)
replace_alias_usage(ty, aliases) ==
    LET inside ==
            [ty EXCEPT !.args = [i \in 1..Len(ty.args) |->
                                    replace_alias_usage(ty.args[i], aliases)],
                       !.ret = [i \in 1..Len(ty.ret) |->
                                    replace_alias_usage(ty.ret[i], aliases)]]
    IN  IF ty.k \in AliasWalks THEN inside
        ELSE IF ty.k = "Path"
        THEN IF ty.name \in DOMAIN aliases THEN TyPtr(aliases[ty.name]) ELSE inside
        ELSE ty

\* A foreign item with f applied to the types rewrite() visits in it: the
\* parameters and return type of a Fn, the type of a Static.
MapSub(sub, f(_)) ==
    IF sub.kind \in {"Fn", "Static"}
    THEN [sub EXCEPT !.inputs = [i \in 1..Len(sub.inputs) |-> f(sub.inputs[i])],
                     !.output = [i \in 1..Len(sub.output) |-> f(sub.output[i])]]
    ELSE sub

\* An item with f applied to its field types or alias body (tys) and to the
\* types of its foreign items.
MapItem(it, f(_)) ==
    [it EXCEPT !.tys = [i \in 1..Len(it.tys) |-> f(it.tys[i])],
               !.items = [i \in 1..Len(it.items) |-> MapSub(it.items[i], f)]]

\* The item kinds replace_type_aliases rewrites (bindings_rewriter.rs:80-114).
AliasItemKinds == {"Struct", "ForeignMod", "Type"}

\* PgBindingsRewriter::replace_type_aliases (bindings_rewriter.rs:60-116)
replace_type_aliases(items) ==
    LET aliases == AliasesOf(items)
        F(ty) == replace_alias_usage(ty, aliases) IN
    [i \in 1..Len(items) |->
        IF items[i].kind \in AliasItemKinds THEN MapItem(items[i], F) ELSE items[i]]

\* rewrite_struct (bindings_rewriter.rs:179-183)
rewrite_struct(it) == MapItem(it, RewriteWhile)

\* rewrite_foreign_mod without the push of the attribute.
GuardedAttrs_Mut(attrs) == attrs

\* rewrite_foreign_mod (bindings_rewriter.rs:187-193): the attributes afterwards.
GuardedAttrs(attrs) == Append(attrs, "pg_guard")

\* rewrite_foreign_mod (bindings_rewriter.rs:185-212)
rewrite_foreign_mod(it) ==
    [MapItem(it, RewriteWhile) EXCEPT !.attrs = GuardedAttrs(it.attrs)]

\* The test without its underscore clause.
NeedsNew_Mut(ident_name) == ident_name # IdList /\ ident_name # IdRelationData

\* rewrite(), the test before the impl is pushed (bindings_rewriter.rs:36)
NeedsNew(ident_name) ==
    /\ ident_name # IdList
    /\ ident_name # IdRelationData
    /\ ~starts_with(ident_name, "_")

\* ---- the input: what syn::parse_file makes of the generated bindings ----
\* A file holds, in this order or with the last item first: the aliases
\* A = *mut S and B = *mut A, the struct S, an extern block, and one more item.
Prelude ==
    << ItemType(IdA, TyPtr(TyPath(IdS, <<>>))),
       ItemType(IdB, TyPtr(TyPath(IdA, <<>>))),
       ItemStruct(IdS, <<TyPtr(TyPath(IdS, <<>>))>>),
       ItemForeignMod(<<"link">>, <<ForeignFn(<<TyPath(IdA, <<>>)>>, <<>>)>>) >>

\* The one more item: a struct, an extern function or static, or an alias, over
\* each input type; a struct of each kind of name; an item of another kind.
\* Every item is at the top level: the generator is run on C headers without
\* namespaces (bindgen.rs), and its output has no modules.
MoreItems ==
    {ItemStruct(IdT, <<t>>) : t \in InputTypes}
    \cup {ItemForeignMod(<<>>, <<ForeignFn(<<t>>, <<>>)>>) : t \in InputTypes}
    \cup {ItemForeignMod(<<>>, <<ForeignFn(<<>>, <<t>>)>>) : t \in InputTypes}
    \cup {ItemForeignMod(<<>>, <<ForeignStatic(t)>>) : t \in InputTypes}
    \cup {ItemType(IdD, t) : t \in InputTypes}
    \cup {ItemStruct(n, <<TyPath(IdS, <<>>)>>) : n \in {IdList, IdRelationData, IdUnderscored}}
    \cup {ItemOther}

InputFiles == {Prelude \o <<it>> : it \in MoreItems} \cup {<<it>> \o Prelude : it \in MoreItems}

\* ---- rewrite() (bindings_rewriter.rs:15-58), step by step ----
\* Where the loop over file.items goes after item i.
AfterItem(i) == IF i < Len(file) THEN <<"items", i + 1>> ELSE <<"impls", 1>>

\* self.replace_type_aliases(&mut file.items) (bindings_rewriter.rs:19)
ReplaceTypeAliases ==
    /\ pc[1] = "parsed"
    /\ file # <<>>
    /\ file' = replace_type_aliases(file)
    /\ pc' = <<"items", 1>>
    /\ UNCHANGED structs
    /\ UNCHANGED fixVars
    /\ UNCHANGED <<memVars, listVars, relVars, ptrVars>>

\* The loop over file.items, Item::Struct arm (bindings_rewriter.rs:24-27)
RewriteStruct ==
    /\ pc[1] = "items"
    /\ file[pc[2]].kind = "Struct"
    /\ file' = [file EXCEPT ![pc[2]] = rewrite_struct(@)]
    /\ structs' = Append(structs, file[pc[2]].ident)
    /\ pc' = AfterItem(pc[2])
    /\ UNCHANGED fixVars
    /\ UNCHANGED <<memVars, listVars, relVars, ptrVars>>

\* The loop over file.items, Item::ForeignMod arm (bindings_rewriter.rs:28)
RewriteForeignMod ==
    /\ pc[1] = "items"
    /\ file[pc[2]].kind = "ForeignMod"
    /\ file' = [file EXCEPT ![pc[2]] = rewrite_foreign_mod(@)]
    /\ pc' = AfterItem(pc[2])
    /\ UNCHANGED structs
    /\ UNCHANGED fixVars
    /\ UNCHANGED <<memVars, listVars, relVars, ptrVars>>

\* The loop over file.items, Item::Type arm (bindings_rewriter.rs:29)
RewriteTypeItem ==
    /\ pc[1] = "items"
    /\ file[pc[2]].kind = "Type"
    /\ file' = [file EXCEPT ![pc[2]] = MapItem(@, RewriteWhile)]
    /\ pc' = AfterItem(pc[2])
    /\ UNCHANGED structs
    /\ UNCHANGED fixVars
    /\ UNCHANGED <<memVars, listVars, relVars, ptrVars>>

\* The loop over file.items, every other item (bindings_rewriter.rs:30)
SkipItem ==
    /\ pc[1] = "items"
    /\ file[pc[2]].kind \notin {"Struct", "ForeignMod", "Type"}
    /\ pc' = AfterItem(pc[2])
    /\ UNCHANGED <<file, structs>>
    /\ UNCHANGED fixVars
    /\ UNCHANGED <<memVars, listVars, relVars, ptrVars>>

\* The loop over structs (bindings_rewriter.rs:34-55): the impl is pushed unless
\* the name is exempt.
ImplNew ==
    /\ pc[1] = "impls"
    /\ pc[2] <= Len(structs)
    /\ LET ident == structs[pc[2]] IN
        file' = IF NeedsNew(ident) THEN Append(file, ImplNewFor(ident)) ELSE file
    /\ pc' = <<"impls", pc[2] + 1>>
    /\ UNCHANGED structs
    /\ UNCHANGED fixVars
    /\ UNCHANGED <<memVars, listVars, relVars, ptrVars>>

\* Ok(file) (bindings_rewriter.rs:57)
Return ==
    /\ pc[1] = "impls"
    /\ pc[2] > Len(structs)
    /\ pc' = <<"done", 0>>
    /\ UNCHANGED <<file, structs>>
    /\ UNCHANGED fixVars
    /\ UNCHANGED <<memVars, listVars, relVars, ptrVars>>

RewriteNext ==
    \/ ReplaceTypeAliases
    \/ RewriteStruct
    \/ RewriteForeignMod
    \/ RewriteTypeItem
    \/ SkipItem
    \/ ImplNew
    \/ Return

\* ---- the caller's loop: while self.rewrite_type(ty) {} ----
\* One iteration of the loop (bindings_rewriter.rs:29, 181, 200, 205, 208): the
\* loop goes on while the call before returned true.  The guard on the count
\* keeps a loop that never ends finite.
RewriteTypeCall ==
    /\ fixCalls = 0 \/ fixRc
    /\ fixCalls <= MaxTypeDepth + 2
    /\ LET r == rewrite_type(fixTy) IN
        /\ fixTy' = r.ty
        /\ fixRc' = r.rc
    /\ fixCalls' = fixCalls + 1
    /\ UNCHANGED <<fixInput, file, structs, pc>>
    /\ UNCHANGED <<memVars, listVars, relVars, ptrVars>>

FixNext == RewriteTypeCall

\* ---- Display for PgPtr<c_char> ----
\* Nothing has been formatted.
InitFmtOut == [status |-> "idle", written |-> <<>>]

\* The bytes of a C string before its NUL: two ASCII letters and 255, a byte no
\* UTF-8 text contains.
MaxStrLen == 2
Bytes == {65, 66, 255}
CStrs == UNION {[1..n -> Bytes] : n \in 0..MaxStrLen}

\* The nested calls the thread's stack holds.
MaxFmtDepth == 8

\* PgPtr<c_char>::as_str (pgptr.rs:133-140): the bytes up to the NUL, as text;
\* panics when they are not UTF-8.
as_str(c) ==
    IF \E i \in 1..Len(c) : c[i] = 255
    THEN [panicked |-> TRUE, str |-> <<>>]
    ELSE [panicked |-> FALSE, str |-> c]

\* A caller formats the pointer with {}: the first call of
\* <PgPtr<c_char> as Display>::fmt.
Fmt ==
    /\ fmtOut.status = "idle"
    /\ fmtStack' = 1
    /\ fmtOut' = [fmtOut EXCEPT !.status = "formatting"]
    /\ UNCHANGED <<cstr, ptr, heap, ptrOut>>
    /\ UNCHANGED <<memVars, listVars, relVars, rwVars>>

\* fmt's body, write!(fmt, "{}", &self): the argument is a reference to self,
\* whose Display is the Display of what it refers to, so fmt is called again
\* on the same pointer, before anything is written.
FmtRecurse ==
    /\ fmtOut.status = "formatting"
    /\ fmtStack < MaxFmtDepth
    /\ fmtStack' = fmtStack + 1
    /\ UNCHANGED <<cstr, fmtOut, ptr, heap, ptrOut>>
    /\ UNCHANGED <<memVars, listVars, relVars, rwVars>>

\* The stack has no room for one more call: the process is aborted.
StackOverflow ==
    /\ fmtOut.status = "formatting"
    /\ fmtStack = MaxFmtDepth
    /\ fmtOut' = [fmtOut EXCEPT !.status = "aborted"]
    /\ UNCHANGED <<cstr, fmtStack, ptr, heap, ptrOut>>
    /\ UNCHANGED <<memVars, listVars, relVars, rwVars>>

FmtNext ==
    \/ Fmt
    \/ FmtRecurse
    \/ StackOverflow

\* ---- the program of the leak_and_drop_on_delete check ----
\* Values are leaked on arenas, arenas are made active, created, reset and
\* deleted; there is no switch_to.
LeakNext ==
    \/ \E sel \in Selectors : LeakAndDropOnDelete(sel)
    \/ \E sel \in Selectors : SetAsCurrent(sel)
    \/ \E sel \in Selectors : Reset(sel)
    \/ New
    \/ \E a \in Arenas : DropOwned(a)

(***************************************************************************)
(*                          Specifications                                 *)
(***************************************************************************)

\* The state on entry to the extension.  The subsystem under test starts from
\* each of its initial states: memcxt with either entry arena active, list as
\* PgPtr::<List>::new() (list.rs:6-8) of each element kind, rel with no handle.
\* A subsystem that is not exercised stays in one initial state.
Init(contexts, kinds, heaps, files, types, cstrs) ==
    /\ CurrentMemoryContext \in contexts
    /\ ctx = InitCtx
    /\ ownedSel = {}
    /\ stack = <<>>
    /\ unwinding = FALSE
    /\ ops = 0
    /\ memOut = InitMemOut
    /\ kind \in kinds
    /\ list = NULL
    /\ cells = InitCells
    /\ iter = NoIter
    /\ crashed = FALSE
    /\ listOut = InitListOut
    /\ handles = <<>>
    /\ refcnt = InitRefcnt
    /\ locks = InitLocks
    /\ relOut = InitRelOut
    /\ ptr = NULL
    /\ heap \in heaps
    /\ ptrOut = InitPtrOut
    /\ file \in files
    /\ structs = <<>>
    /\ pc = <<"parsed", 0>>
    /\ callbacks = InitCallbacks
    /\ drops = <<>>
    /\ dangling = FALSE
    /\ cstr \in cstrs
    /\ fmtStack = 0
    /\ fmtOut = InitFmtOut
    /\ fixInput \in types
    /\ fixTy = fixInput
    /\ fixCalls = 0
    /\ fixRc = FALSE

\* Host memory holding the same value everywhere.
IdleHeap == [a \in PtrAddrs |-> "x"]

\* An empty file.
IdleFile == <<>>

\* A type with nothing to rewrite.
IdleType == TyPath(IdS, <<>>)

\* The empty C string.
IdleCStr == <<>>

MemInit == Init(EntryContexts, {"i32"}, {IdleHeap}, {IdleFile}, {IdleType}, {IdleCStr})
ListInit == Init({TopTransactionContext}, Kinds, {IdleHeap}, {IdleFile}, {IdleType}, {IdleCStr})
RelInit == Init({TopTransactionContext}, {"i32"}, {IdleHeap}, {IdleFile}, {IdleType}, {IdleCStr})
PtrInit == Init({TopTransactionContext}, {"i32"}, [PtrAddrs -> PtrVals], {IdleFile}, {IdleType}, {IdleCStr})
RewriteInit == Init({TopTransactionContext}, {"i32"}, {IdleHeap}, InputFiles, {IdleType}, {IdleCStr})
FixInit == Init({TopTransactionContext}, {"i32"}, {IdleHeap}, {IdleFile}, InputTypes, {IdleCStr})

MemSpec == MemInit /\ [][MemNext]_vars
ListSpec == ListInit /\ [][ListNext]_vars
RelSpec == RelInit /\ [][RelNext]_vars
PtrSpec == PtrInit /\ [][PtrNext]_vars
RewriteSpec == RewriteInit /\ [][RewriteNext]_vars
FixSpec == FixInit /\ [][FixNext]_vars
LeakSpec == MemInit /\ [][LeakNext]_vars
FmtInit == Init({TopTransactionContext}, {"i32"}, {IdleHeap}, {IdleFile}, {IdleType}, CStrs)
FmtSpec == FmtInit /\ [][FmtNext]_vars

(***************************************************************************)
(*                     Properties of PgMemoryContexts                      *)
(***************************************************************************)

\* The steps of a switch_to call, told apart by what they do to the stack of
\* calls in progress.
SwitchToEnters == Len(stack') = Len(stack) + 1
SwitchToReturns == Len(stack') = Len(stack) - 1 /\ ~unwinding
SwitchToFaults == Len(stack') = Len(stack) - 1 /\ unwinding

\* C1: when the body of switch_to returns normally, the active arena after
\* switch_to is again the arena P that was active when it was called; and the
\* body starts with the arena of the selector active: the arena value() gives for
\* the selector at the call, or for Transient a new arena under the given parent.
C1_RestoredAfterReturn ==
    [][ /\ SwitchToReturns => CurrentMemoryContext' = TopFrame.atCall
        /\ SwitchToEnters =>
            LET f == stack'[Len(stack')] IN
            /\ f.atCall = CurrentMemoryContext
            /\ IF f.sel.tag = "Transient"
               THEN /\ ctx[CurrentMemoryContext'].state = "free"
                    /\ ctx'[CurrentMemoryContext'] =
                           [state |-> "live", parent |-> f.sel.arg]
               ELSE CurrentMemoryContext' = value(f.sel) ]_vars

\* C1: a switch_to on a Transient selector has returned normally (the arena the
\* body ran in is never the one that was active before).
C1_Witness ==
    memOut.op = "switch_to" /\ ~memOut.panicked /\ memOut.tag = "Transient"

\* C2: when the body of switch_to raises instead of returning, the active arena
\* after switch_to has exited is still the arena that was active when it was
\* called.
C2_RestoredAfterFault ==
    [][SwitchToFaults => CurrentMemoryContext' = TopFrame.atCall]_vars

\* C3: by the time a switch_to on a Transient selector exits, by return or by
\* fault, the arena it created has been deleted.
C3_TransientDeletedOnExit ==
    [][ (Len(stack') = Len(stack) - 1 /\ TopFrame.sel.tag = "Transient")
            => ctx'[TopFrame.created].state = "deleted" ]_vars

\* C10: value() panics exactly on Transient selectors and gives an arena for
\* every other one; value(), set_as_current() and reset() on a Transient
\* selector panic with the active arena and every arena as they were; value()
\* on any other selector does not panic and changes no state.
C10_TransientPanics ==
    [][ /\ \A sel \in AllSelectors :
              IF sel.tag = "Transient" THEN value(sel) = PANIC
              ELSE value(sel) \in Arenas
        /\ (ops' = ops + 1 /\ memOut'.op \in {"value", "set_as_current", "reset"}
              /\ memOut'.tag = "Transient")
            => /\ memOut'.panicked
               /\ UNCHANGED <<CurrentMemoryContext, ctx, ownedSel, stack>>
        /\ (ops' = ops + 1 /\ memOut'.op = "value" /\ memOut'.tag # "Transient")
            => /\ ~memOut'.panicked
               /\ UNCHANGED <<CurrentMemoryContext, ctx, ownedSel, stack>> ]_vars

\* C10: set_as_current() was called on a Transient selector and panicked.
C10_Witness ==
    memOut.op = "set_as_current" /\ memOut.tag = "Transient" /\ memOut.panicked

\* C16: switch_to calls nest as a stack.  A call pushes one frame on the calls
\* in progress and makes its selector's arena active; a return pops the frame
\* of the innermost call only and makes active the arena that was active when
\* that call was made: the arena of the enclosing body if the call was made
\* under it, the original arena if the call was the outermost one.  No other
\* step touches the calls in progress.  This holds at every depth.
C16_SwitchToNests ==
    [][ /\ SwitchToEnters =>
            /\ SubSeq(stack', 1, Len(stack)) = stack
            /\ CurrentMemoryContext' = stack'[Len(stack')].context
        /\ SwitchToReturns =>
            /\ stack' = SubSeq(stack, 1, Len(stack) - 1)
            /\ (Len(stack) > 1 /\ TopFrame.atCall = stack[Len(stack) - 1].context)
                    => CurrentMemoryContext' = stack'[Len(stack')].context
            /\ Len(stack) > 1 => CurrentMemoryContext' = stack[Len(stack)].atCall
            /\ Len(stack) = 1 => CurrentMemoryContext' = stack[1].atCall
        /\ Len(stack') = Len(stack) => stack' = stack ]_vars

\* C16: an inner switch_to, on a Transient selector, has returned to the body of
\* an outer one, whose arena is active again and is not the original one.
C16_Witness ==
    /\ memOut.op = "switch_to" /\ ~memOut.panicked /\ memOut.tag = "Transient"
    /\ Len(stack) = 1
    /\ CurrentMemoryContext = stack[1].context
    /\ CurrentMemoryContext # stack[1].atCall

Allocates_Step == memOut'.op \in {"palloc", "palloc0"} /\ ops' = ops + 1

\* C17: an allocation is owned by the arena that is active when it is made.
\* When switch_to has entered its body, an allocation is owned by the arena
\* switch_to resolved for its selector (for Transient, the arena it created),
\* and the selector handed to the body resolves to the active arena; when
\* switch_to has returned, an allocation is owned by the arena that was active
\* before the call.
C17_AllocatesInActiveArena ==
    [][ /\ Allocates_Step =>
            /\ get_context_for_pointer(memOut'.ret) = CurrentMemoryContext
            /\ memOut.op = "switch_to_enter"
                    => /\ get_context_for_pointer(memOut'.ret) = TopFrame.context
                       /\ TopFrame.sel.tag # "Transient"
                            => get_context_for_pointer(memOut'.ret) = value(TopFrame.sel)
                       /\ TopFrame.sel.tag = "Transient"
                            => get_context_for_pointer(memOut'.ret) = TopFrame.created
        /\ SwitchToEnters =>
            /\ value(BodyHandle(stack'[Len(stack')])) = CurrentMemoryContext'
            /\ get_context_for_pointer(palloc') = stack'[Len(stack')].context
        /\ SwitchToReturns =>
            get_context_for_pointer(palloc') = TopFrame.atCall ]_vars

\* C17: an allocation was made right after a switch_to to another arena had
\* entered its body, and is owned by that arena.
C17_Witness ==
    /\ memOut.op \in {"palloc", "palloc0"}
    /\ stack # <<>>
    /\ get_context_for_pointer(memOut.ret) = TopFrame.context
    /\ TopFrame.context # TopFrame.atCall

\* C18: set_as_current on a selector that is not Transient makes the selector's
\* arena the active one and returns For(the arena that was active before),
\* touching nothing else; the active arena then stays as it is until a later
\* set_as_current or switch_to changes it; and set_as_current on the selector
\* returned makes the arena that was active before the first call active again.
C18_SetAsCurrentSwitches ==
    [][ /\ \A sel \in Selectors :
              (sel.tag # "Transient" /\ SetAsCurrent(sel))
                  => /\ CurrentMemoryContext' = value(sel)
                     /\ memOut' = Out("set_as_current", SelKind(sel), FALSE,
                                      CurrentMemoryContext)
                     /\ UNCHANGED <<ctx, ownedSel, stack, unwinding>>
        /\ CurrentMemoryContext' # CurrentMemoryContext
              => memOut'.op \in {"set_as_current", "switch_to_enter", "switch_to"}
        /\ (memOut.op = "set_as_current" /\ ~memOut.panicked
                /\ SetAsCurrent(Sel("For", memOut.ret)))
              => /\ CurrentMemoryContext' = memOut.ret
                 /\ memOut'.ret = CurrentMemoryContext ]_vars

\* C18: set_as_current has made another arena active and returned the selector
\* of the one that was active, after an earlier operation.
C18_Witness ==
    /\ memOut.op = "set_as_current" /\ ~memOut.panicked
    /\ memOut.ret # CurrentMemoryContext
    /\ ops >= 2

\* C22: in every reachable state the active arena is not an arena that has
\* been deleted.
C22_ActiveArenaNotDeleted == ctx[CurrentMemoryContext].state # "deleted"

\* C23: no arena is deleted twice.  When the wrapper of an Owned arena is
\* destroyed, by going out of scope or at the end of the switch_to that
\* consumed it, the arena is still live: it has not been deleted already with
\* its parent.
C23_OwnedDeletedOnce ==
    [][ /\ (memOut'.op = "drop" /\ ops' = ops + 1)
              => \A a \in ownedSel \ ownedSel' : ctx[a].state = "live"
        /\ (Len(stack') = Len(stack) - 1 /\ TopFrame.owned # NULL
                /\ ctx'[TopFrame.owned].state = "deleted")
              => ctx[TopFrame.owned].state = "live" ]_vars

\* C26: the callback record leak_and_drop_on_delete registers on the
\* selector's arena is allocated in that arena, so that it is still allocated
\* when the host comes to read it, whatever arena was active at the call; and
\* the leaked value is dropped once, when that arena is reset or deleted, and
\* not before.
C26_CallbackRecordInItsArena ==
    /\ \A b \in Arenas : \A i \in 1..Len(callbacks[b]) :
            callbacks[b][i].at = b /\ callbacks[b][i].valid
    /\ ~dangling
    /\ \A v \in 1..Len(drops) :
            drops[v] <= 1 /\ (RegisteredOn(v) # {} => drops[v] = 0)

(***************************************************************************)
(*                        Properties of PgPtr<List>                        *)
(***************************************************************************)

\* C4: a pop on a null or empty list returns None, calls no host list routine,
\* and leaves the handle as it was, with length 0.
C4_PopOnEmpty ==
    (listOut.op = "pop" /\ listOut.lenBefore = 0)
        => /\ listOut.res.tag = "None"
           /\ listOut.calls = <<>>
           /\ list = listOut.listBefore
           /\ len(list) = 0

\* C5: get(i) returns an element only for 0 <= i < len(); for every other index
\* it returns None and calls no host list routine.
C5_GetBoundsChecked ==
    listOut.op = "get"
        => IF 0 <= listOut.arg /\ listOut.arg < listOut.lenBefore
           THEN listOut.res.tag \in {"Some", "panic"}
           ELSE listOut.res.tag = "None" /\ listOut.calls = <<>>

\* C6: on an i32 list in any state, a pop_i32 that directly follows push_i32(x)
\* returns Some(x); and after a pop_i32 that returns Some, the length is one less
\* than before the pop.
C6_PushPopRoundTrip ==
    [][ kind = "i32" =>
         /\ (listOut.op = "push" /\ listOut'.op = "pop")
                => listOut'.res = R("Some", listOut.arg)
         /\ (listOut'.op = "pop" /\ listOut' # listOut /\ listOut'.res.tag = "Some")
                => (IF list' = NULL THEN 0 ELSE Len(cells'[list']))
                       = listOut'.lenBefore - 1 ]_vars

\* C6: a pop_i32 has returned Some on a list of two elements.
C6_Witness ==
    /\ kind = "i32"
    /\ listOut.op = "pop"
    /\ listOut.res.tag = "Some"
    /\ listOut.lenBefore = 2
    /\ len(list) = 1

\* What an iterator has to have yielded after pos calls of next() on a list
\* whose elements are es: the first pos of them, and None once they are used up.
YieldsInOrder(it, es) ==
    /\ ~it.panicked
    /\ it.out = SubSeq(es, 1, IF it.pos < Len(es) THEN it.pos ELSE Len(es))
    /\ it.ended <=> it.pos > Len(es)

\* The elements of the list behind handle h.
Elements(h) == IF h = NULL THEN <<>> ELSE cells[h]

\* C7 as stated: an iterator over a list that has not been modified since the
\* iterator was made yields the list's elements in index order and then None,
\* whatever the elements are (a fresh iterator starts again at the first one).
C7_IterYieldsAll ==
    (iter.alive /\ iter.clean /\ ~crashed) => YieldsInOrder(iter, Elements(list))

\* Whether next() has come upon a null pointer element of a pointer list.
MetNullElement(it, es) ==
    /\ kind = "ptr"
    /\ it.pos < Len(es)
    /\ es[it.pos + 1] = NULL

\* C7: an iterator over a list that has not been modified since the iterator
\* was made yields the list's elements in index order and then None (a fresh
\* iterator starts again at the first one), as long as next() has not come upon a
\* null pointer element of a pointer list; at such an element next() panics or
\* is still to be called, and the elements before it have been yielded in order.
C7_IterYieldsUntilNull ==
    (iter.alive /\ iter.clean /\ ~crashed)
        => IF MetNullElement(iter, Elements(list))
           THEN /\ iter.out = SubSeq(Elements(list), 1, iter.pos)
                /\ ~iter.ended
           ELSE YieldsInOrder(iter, Elements(list))

\* C7: an iterator has yielded both elements of a two-element list and then None.
C7_Witness ==
    /\ iter.alive
    /\ iter.clean
    /\ len(list) = 2
    /\ iter.out = cells[list]
    /\ iter.ended

\* What get(i) gives on the abstract sequence es.
SeqGet(es, i) ==
    IF 0 <= i /\ i < Len(es) THEN R("Some", es[i + 1]) ELSE R("None", NULL)

\* C19: on an i32 list that started as the null handle, len() and get_i32(i) for
\* every i agree with the sequence of its elements, on which push appends at
\* the end, pop removes and returns the last element (None on the empty one),
\* and replace overwrites one position; no call brings the host down.
C19_AgreesWithSequence ==
    [][ kind = "i32" =>
         /\ ~crashed'
         /\ len(list) = Len(Elements(list))
         /\ \A i \in Indices : \A o \in get(list, i) : o.res = SeqGet(Elements(list), i)
         /\ listOut'.op = "push"
               => Elements(list') = Append(Elements(list), listOut'.arg)
         /\ listOut'.op = "pop"
               => IF Elements(list) = <<>>
                  THEN listOut'.res = R("None", NULL) /\ Elements(list') = <<>>
                  ELSE /\ listOut'.res = R("Some", Elements(list)[Len(Elements(list))])
                       /\ Elements(list') =
                             SubSeq(Elements(list), 1, Len(Elements(list)) - 1)
         /\ listOut'.op = "replace"
               => /\ listOut'.res = SeqGet(Elements(list), listOut'.arg)
                  /\ Len(Elements(list')) = Len(Elements(list))
                  /\ \A j \in 1..Len(Elements(list)) :
                        j # listOut'.arg + 1 => Elements(list')[j] = Elements(list)[j] ]_vars

\* C20: replace at an index i with 0 <= i < len() returns Some(the element that
\* was at i), after which get at i gives the new value, with the length, the
\* handle and every other element as they were; at any other index it returns
\* None and leaves the list as it was.
C20_ReplaceInRangeOnly ==
    [][ \A i \in Indices, v \in ElemVals(kind) :
          Replace(i, v) =>
            IF 0 <= i /\ i < len(list)
            THEN /\ listOut'.res = R("Some", Elements(list)[i + 1])
                 /\ list' = list
                 /\ Elements(list') = [Elements(list) EXCEPT ![i + 1] = v]
            ELSE /\ listOut'.res = R("None", NULL)
                 /\ ~crashed'
                 /\ UNCHANGED <<list, cells>> ]_vars

\* C24: a next() on an iterator made by iter_int / iter_oid reads the list at
\* the address the handle has now, with the length it has now, also after a
\* push or a pop has reassigned the handle: it gives what get at the iterator's
\* position gives on the handle.
C24_IterReadsCurrentList ==
    [][ (listOut'.op = "next" /\ iter.alive /\ ~iter.borrow /\ iter' # iter)
            => \E o \in get(list, iter.pos) : listOut'.res = o.res ]_vars

(***************************************************************************)
(*                        Properties of PgRelation                         *)
(***************************************************************************)

\* The close call that matches the fields of handle r.
MatchingClose(r) ==
    IF r.lockmode = None
    THEN RelCall("RelationClose", rd_id(r.boxed), None)
    ELSE RelCall("relation_close", rd_id(r.boxed), r.lockmode)

ClonesOf(h) == {c \in 1..Len(handles) : handles[c].from = h}

\* C9: a clone opens the relation id of the original again with
\* AccessShareLock and stores that mode, whatever the mode of the original; the
\* drop of a clone releases AccessShareLock, and the drop of a handle that has
\* been cloned makes the close call matching its own lock mode.
C9_CloneTakesShareLock ==
    /\ (relOut.op = "clone" /\ relOut.res = "ok")
            => LET c == handles[relOut.h]
                   o == handles[c.from] IN
               /\ relOut.calls = <<RelCall("relation_open", rd_id(o.boxed),
                                           "AccessShareLock")>>
               /\ c.boxed = Desc(rd_id(o.boxed))
               /\ c.lockmode = "AccessShareLock"
    /\ (relOut.op = "drop" /\ handles[relOut.h].via = "clone")
            => relOut.calls = <<RelCall("relation_close",
                                        rd_id(handles[relOut.h].boxed),
                                        "AccessShareLock")>>
    /\ (relOut.op = "drop" /\ ClonesOf(relOut.h) # {})
            => relOut.calls = <<MatchingClose(handles[relOut.h])>>

\* C9: the clone of a handle opened with AccessExclusiveLock has been dropped.
C9_Witness ==
    /\ relOut.op = "drop"
    /\ handles[relOut.h].via = "clone"
    /\ handles[handles[relOut.h].from].lockmode = "AccessExclusiveLock"

\* C25: the closes issued never exceed the opens issued: the host's count of
\* the references the program holds is never below zero, and a handle whose
\* drop has issued a close is one whose construction issued an open.
C25_ClosesMatchOpens ==
    /\ \A o \in Oids : refcnt[o] >= 0
    /\ (relOut.op = "drop" /\ relOut.calls # <<>>) => handles[relOut.h].via # "from"

(***************************************************************************)
(*                          Properties of PgPtr                            *)
(***************************************************************************)

\* C11: deref and deref_mut on a null handle panic: they yield no reference and
\* no default value; on a non-null handle they yield a reference to the pointee
\* (a read through it finds what is stored at the handle's address, a write
\* through it lands there) and leave the handle as it was.
C11_DerefNullPanics ==
    [][ (ptrOut'.op \in {"deref", "deref_mut"} /\ (ptrOut' # ptrOut \/ heap' # heap))
          => /\ ptr' = ptr
             /\ IF ptr = NULL
                THEN /\ ptrOut'.res = "panic"
                     /\ ptrOut'.val = DefaultVal
                     /\ heap' = heap
                ELSE /\ ptrOut'.res = "ref"
                     /\ ptrOut'.ref = ptr
                     /\ ptrOut'.op = "deref"
                            => ptrOut'.val = heap[ptr] /\ heap' = heap
                     /\ ptrOut'.op = "deref_mut"
                            => heap' = [heap EXCEPT ![ptr] = ptrOut'.val] ]_vars

\* C11: deref has panicked on a null handle.
C11_Witness ==
    ptr = NULL /\ ptrOut.op = "deref" /\ ptrOut.res = "panic"

(***************************************************************************)
(*                 Properties of the declaration rewriter                  *)
(***************************************************************************)
\* A raw pointer occurs in ty, at any depth.
RECURSIVE HasRawPtr(_)
HasRawPtr(ty) ==
    \/ ty.k = "Ptr"
    \/ \E i \in 1..Len(ty.args) : HasRawPtr(ty.args[i])
    \/ \E i \in 1..Len(ty.ret) : HasRawPtr(ty.ret[i])

\* The path name n occurs in ty, at any depth.
RECURSIVE UsesName(_, _)
UsesName(ty, n) ==
    \/ ty.k = "Path" /\ ty.name = n
    \/ \E i \in 1..Len(ty.args) : UsesName(ty.args[i], n)
    \/ \E i \in 1..Len(ty.ret) : UsesName(ty.ret[i], n)

\* The types in an item's struct fields or alias body, and in the parameters,
\* return types and statics of its extern block.
SiteTypes(it) ==
    IF it.kind \in {"Struct", "Type"} THEN {it.tys[i] : i \in 1..Len(it.tys)}
    ELSE IF it.kind = "ForeignMod"
    THEN UNION {{it.items[j].inputs[i] : i \in 1..Len(it.items[j].inputs)}
                \cup {it.items[j].output[i] : i \in 1..Len(it.items[j].output)}
                : j \in 1..Len(it.items)}
    ELSE {}

Rewritten == pc[1] = "done"

\* C12: after rewrite(), no raw pointer type occurs in the type of any struct
\* field, extern function parameter or return type, extern static or alias
\* body of the output, whatever type constructors enclose it.
C12_NoRawPointerLeft ==
    Rewritten => \A i \in 1..Len(file) : \A ty \in SiteTypes(file[i]) : ~HasRawPtr(ty)

\* The number of pg_guard attributes on an extern block.
Guards(it) == Cardinality({j \in 1..Len(it.attrs) : it.attrs[j] = "pg_guard"})

ImplsFor(n) ==
    {i \in 1..Len(file) : file[i].kind = "Impl" /\ file[i].tys = <<PgPtrOf(TyPath(n, <<>>))>>}

\* An impl has a function named name that calls the routine with size_of::<n>().
Allocates(impl, name, routine, n) ==
    \E j \in 1..Len(impl.items) :
        /\ impl.items[j].name = name
        /\ impl.items[j].call = routine
        /\ impl.items[j].size_of = n

Exempt(n) == n = IdList \/ n = IdRelationData \/ n[1] = "_"

\* C14: after rewrite(), every struct of the output whose name is not List, not
\* RelationData and does not start with an underscore has exactly one New impl
\* for PgPtr of it, whose new calls palloc and whose new0 calls palloc0, each
\* with the size of the struct; an exempt struct has no such impl.
C14_ConstructorsSynthesized ==
    Rewritten =>
        \A i \in 1..Len(file) : file[i].kind = "Struct" =>
            LET n == file[i].ident IN
            IF Exempt(n) THEN ImplsFor(n) = {}
            ELSE /\ Cardinality(ImplsFor(n)) = 1
                 /\ \A l \in ImplsFor(n) :
                        /\ Allocates(file[l], IdNew, "palloc", n)
                        /\ Allocates(file[l], IdNew0, "palloc0", n)
                        /\ Len(file[l].items) = 2

\* rewrite() has finished on a file with an exempt struct and a struct that is
\* not exempt, which has its impl.
C14_Witness ==
    /\ Rewritten
    /\ \E i \in 1..Len(file) : file[i].kind = "Struct" /\ Exempt(file[i].ident)
    /\ ImplsFor(IdS) # {}

\* The aliases of a file whose body is a pointer to a struct of the file.
StructAliases(items) ==
    {items[i].ident : i \in {j \in 1..Len(items) :
        /\ IsPtrAlias(items[j])
        /\ \E l \in 1..Len(items) :
              items[l].kind = "Struct" /\ items[l].ident = items[j].tys[1].args[1].name}}

\* C15: the alias pass leaves no use of an alias whose body is a pointer to a
\* named struct, in any struct field, extern function parameter or return
\* type, static or alias body.
C15_NoAliasUseLeft ==
    [][ReplaceTypeAliases =>
        \A n \in StructAliases(file) : \A i \in 1..Len(file') :
            \A ty \in SiteTypes(file'[i]) : ~UsesName(ty, n)]_vars

\* The pointer to pointer ... to t, k levels deep, and k PgPtr wrappers around t.
RECURSIVE PtrChain(_, _)
PtrChain(k, t) == IF k = 0 THEN t ELSE TyPtr(PtrChain(k - 1, t))
RECURSIVE WrapChain(_, _)
WrapChain(k, t) == IF k = 0 THEN t ELSE PgPtrOf(WrapChain(k - 1, t))

\* The raw pointers in a type.
RECURSIVE NumPtrs(_)
NumPtrs(t) ==
    (IF t.k = "Ptr" THEN 1 ELSE 0)
    + (IF t.args = <<>> THEN 0 ELSE NumPtrs(t.args[1]))
    + (IF t.ret = <<>> THEN 0 ELSE NumPtrs(t.ret[1]))

LoopEnded == fixCalls > 0 /\ ~fixRc

\* C27: formatting a C-string pointer with Display ends after a bounded number
\* of formatting calls, one here, and what it has written when it ends is the
\* text as_str gives; it does not end by exhausting the stack.
C27_DisplayWritesAsStr ==
    /\ fmtStack <= 1
    /\ fmtOut.status # "aborted"
    /\ fmtOut.status = "done" =>
          ~as_str(cstr).panicked /\ fmtOut.written = as_str(cstr).str

\* C21: the loop that calls rewrite_type until it returns false ends, after at
\* most one call more than the input has raw pointers; every call returns true
\* exactly when it changed the type; when the loop has ended one more call
\* changes nothing and returns false, and a pointer to pointer ... to T, k
\* levels deep, has become k nested PgPtr wrappers around T.
C21_RewriteReachesFixedPoint ==
    [][ /\ fixCalls' <= NumPtrs(fixInput) + 1
        /\ fixCalls' = fixCalls + 1 => (fixRc' <=> fixTy' # fixTy)
        /\ LoopEnded' =>
            /\ rewrite_type(fixTy') = [ty |-> fixTy', rc |-> FALSE]
            /\ \A k \in 1..MaxTypeDepth : \A t \in TypesUpTo(0) :
                  fixInput = PtrChain(k, t) => fixTy' = WrapChain(k, t) ]_vars

\* C21: the loop has ended on the pointer to pointer ... to S of the greatest
\* depth, after one call for each level and the call that returned false.
C21_Witness ==
    /\ LoopEnded
    /\ fixInput = PtrChain(MaxTypeDepth, TyPath(IdS, <<>>))
    /\ fixTy = WrapChain(MaxTypeDepth, TyPath(IdS, <<>>))
    /\ fixCalls = MaxTypeDepth + 1

====
